---- MODULE Spec2Model ----
(***************************************************************************)
(* Per-scenario lifecycle of the Playwright/Cucumber harness:              *)
(*   - BrowserManager (src/src/utils/BrowserManager.ts)                    *)
(*   - CustomWorld    (src/src/utils/World.ts)                             *)
(*   - the Cucumber hooks BeforeAll / Before / After / AfterAll            *)
(*     (src/unnamed/part_001)                                              *)
(*   - setEnvValue on the .env file (src/unnamed/part_002)                 *)
(*                                                                         *)
(* Two specifications share the variables and the BrowserManager           *)
(* operators:                                                              *)
(*   Spec    the hooks, run by Parallel worker lanes over NScen pickles;   *)
(*   SpecBM  one BrowserManager whose methods are called in any order.     *)
(*                                                                         *)
(* Playwright and Cucumber are libraries, not code of the repository.      *)
(* Their calls are modelled by their API contract: launch, newContext,     *)
(* newPage and screenshot either resolve or reject; close() on a page, a   *)
(* context or a browser resolves and is a no-op on an object that is       *)
(* already closed; closing a context closes its pages and closing a        *)
(* browser closes its contexts.  Cucumber runs the After hooks of a        *)
(* scenario whose Before hook or step failed and skips the steps that      *)
(* follow a failure; pickle ids are unique within a run.                   *)
(***************************************************************************)
EXTENDS Integers, Sequences, FiniteSets, TLC

\* ------------------------------------------------------------ bounds
NScen == 2
MaxTime == 1
MaxSteps == 1
MaxRes == 2
MaxLines == 2
MaxRows == 2

\* ------------------------------------------------- program constants
Parallel == 2
RandomMin == 100
RandomMax == 999

Scen == 1..NScen
Lanes == 1..Parallel
Null == 0

SupportedKinds == {"chromium", "firefox", "webkit"}
BrowserChoices == {"chromium", "firefox", "webkit", "edge"}

\* pickle.id: Cucumber gives every pickle of a run an id of its own
PickleId(s) == "id" \o ToString(s)

\* the feature files: Paypal_Webhook_API.feature is tagged @api, the rest is not
PickleTags(s) == IF s % 2 = 0 THEN {"@api", "@smoke"} ELSE {"@login", "@smoke"}

VARIABLES
  cfgBrowser,    \* config.browser, read once at process start
  now,           \* the clock behind Date.now(), in milliseconds
  envFile,       \* the .env file: a sequence of [key, val] lines
  nextPickle,    \* the next pickle the coordinator hands to an idle lane
  pc,            \* lane -> position of the lane's code
  cur,           \* lane -> the scenario (World) the lane is running, or Null
  ret,           \* lane -> where closeBrowser / setEnvValue returns to
  closeIdx,      \* lane -> position inside closeBrowser
  envBuf,        \* lane -> the lines setEnvValue read
  envReq,        \* lane -> the [key, val] setEnvValue was called with
  lastCall,      \* lane -> the last BrowserManager call: op, outcome, handles before
  orphans,       \* lane -> browser processes left running by Worlds it has dropped
  bm,            \* scenario -> BrowserManager fields browser, context, page
  wpage,         \* scenario -> World.page
  testData,      \* scenario -> World.testData
  result,        \* scenario -> result.status and whether result.message is set
  attachments,   \* scenario -> media types attached, in order
  res,           \* scenario -> the browsers, contexts and pages its manager made
  phase,         \* scenario -> lifecycle phase
  hist,          \* scenario -> counters of what was invoked for it
  hookStatus,    \* scenario -> the status Cucumber records for its After hook
  envLast,       \* key -> the value of the last setEnvValue write that completed
  insVarMenuLink,\* lane -> the module variable of GithubLogin_Steps.ts in that worker
  menuRead,      \* scenario -> whose value its submenu step read from insVarMenuLink
  rest,          \* scenario -> RESTUtils fields apiContext, response
  restRes,       \* scenario -> the APIRequestContexts its RESTUtils made, and the
                 \*             last response a server delivered to it
  restCall,      \* lane -> the last RESTUtils call: op, outcome, value returned
  wobj,          \* scenario -> World fields _loginPage, _homePage, _restUtils
  heap,          \* the number of page objects and RESTUtils constructed so far
  stepCall       \* lane -> the last step or getter run: what it was given and did

vars == << cfgBrowser, now, envFile, nextPickle, pc, cur, ret, closeIdx, envBuf,
           envReq, lastCall, orphans, bm, wpage, testData, result, attachments,
           res, phase, hist, hookStatus, envLast, insVarMenuLink, menuRead,
           rest, restRes, restCall, wobj, heap, stepCall >>

objVars == << wobj, heap, stepCall >>
extVars == << hookStatus, envLast, insVarMenuLink, menuRead, rest, restRes, restCall,
              objVars >>
restVars == << rest, restRes, restCall >>

laneVars == << pc, cur, ret, closeIdx, envBuf, envReq, lastCall, orphans >>
worldVars == << bm, wpage, testData, result, attachments, phase, hist >>

\* ------------------------------------------------------------ helpers
NewManager == [browser |-> Null, context |-> Null, page |-> Null]

NoRes == [browsers |-> << >>, contexts |-> << >>, pages |-> << >>]

NoCall == [op |-> "none", out |-> "none", pre |-> NewManager, preRes |-> NoRes,
           afterClose |-> FALSE]

NewHist == [launch |-> 0, close |-> 0, version |-> 0, steps |-> 0, clear |-> 0]

NoResult == [status |-> "unknown", message |-> FALSE]

NoReq == [key |-> "", val |-> ""]

EmptyMap == << >>

\* the value of a variable that was declared and never assigned
Undefined == [val |-> "undefined", by |-> Null]

\* what a scenario that ran no submenu step has read from insVarMenuLink
NoRead == [val |-> "none", by |-> Null]

\* this.response while it is undefined
NoResponse == [status |-> 0, cx |-> Null]

\* a field of a JavaScript object that was never assigned, as a value: the two
\* resource URLs as text (what string concatenation makes of undefined), the
\* staged payload and headers as a JSON value
UndefinedText == "undefined"
JUndefined == [t |-> "undefined", s |-> "undefined"]

\* new RESTUtils(): no request context, no response, nothing staged
NewRESTUtils == [apiContext |-> Null, response |-> NoResponse,
                 OAuthResourceURL |-> UndefinedText, tranResourceURL |-> UndefinedText,
                 apiBodyPayload |-> JUndefined, apiCustomHeaders |-> JUndefined]

NoRestCall == [op |-> "none", out |-> "none", val |-> Null]

NoRestRes == [contexts |-> << >>, delivered |-> NoResponse]

\* a World field that holds no object yet, and an object: its identity and, for
\* a page object, the page its constructor read from the BrowserManager
NoObj == [id |-> 0, page |-> Null]

\* new CustomWorld(): _loginPage, _homePage and _restUtils are undefined
NewWorld == [loginPage |-> NoObj, homePage |-> NoObj, restUtils |-> NoObj]

NoStep == [op |-> "none", out |-> "none"]

MapSet(m, k, v) == [x \in (DOMAIN m) \cup {k} |-> IF x = k THEN v ELSE m[x]]

\* ------------------------------------------------- Playwright (library)
\* chromium.launch / firefox.launch / webkit.launch resolved: a new process
LibLaunch(r) == [r EXCEPT !.browsers = Append(@, [st |-> "open"])]

\* browser.newContext() resolved
LibNewContext(r, b) == [r EXCEPT !.contexts = Append(@, [st |-> "open", br |-> b])]

\* context.newPage() resolved
LibNewPage(r, c) == [r EXCEPT !.pages = Append(@, [st |-> "open", cx |-> c])]

\* page.close(), context.close(), browser.close(): a no-op on a closed object;
\* a context takes its pages with it, a browser its contexts
LibClose(r, kind, h) ==
  CASE kind = "page" ->
         [r EXCEPT !.pages[h].st = "closed"]
    [] kind = "context" ->
         [r EXCEPT !.contexts[h].st = "closed",
                   !.pages = [i \in DOMAIN @ |->
                                IF @[i].cx = h THEN [@[i] EXCEPT !.st = "closed"] ELSE @[i]]]
    [] kind = "browser" ->
         LET dead == {c \in DOMAIN r.contexts : r.contexts[c].br = h} IN
         [r EXCEPT !.browsers[h].st = "closed",
                   !.contexts = [i \in DOMAIN @ |->
                                   IF i \in dead THEN [@[i] EXCEPT !.st = "closed"] ELSE @[i]],
                   !.pages = [i \in DOMAIN @ |->
                                IF @[i].cx \in dead THEN [@[i] EXCEPT !.st = "closed"] ELSE @[i]]]

\* launchBrowser() storing the version under the key of the run's start time
VersionKeyOfStartTime == "TEST_STARTED_TIME"

\* the key launchBrowser() stores the browser version under
VersionKey == "RUN_BROWSER_VERSION"

\* browser.version()
BrowserVersion(kind) == "v-" \o kind

\* --------------------------------------------------- BrowserManager
\* Each method is an operator from the manager's fields m, its resources r and
\* the library's outcome to the fields and resources after the call and the
\* call's outcome: "ok", or the error it threw.

\* a launchBrowser() that launches nothing when the manager holds a browser
launchBrowserOnce(m, r, kind, libOk) ==
  IF m.browser # Null
    THEN [bm |-> m, res |-> r, out |-> "ok"]
    ELSE IF kind \in SupportedKinds /\ ~libOk
      THEN [bm |-> m, res |-> r, out |-> "LaunchError"]
      ELSE LET r1 == IF kind \in SupportedKinds THEN LibLaunch(r) ELSE r
               m1 == IF kind \in SupportedKinds
                       THEN [m EXCEPT !.browser = Len(r1.browsers)] ELSE m
           IN  IF m1.browser = Null
                 THEN [bm |-> m1, res |-> r1, out |-> "TypeError"]
                 ELSE [bm |-> m1, res |-> r1, out |-> "ok"]

\* launchBrowser(), up to and including browser.version()
launchBrowser(m, r, kind, libOk) ==
  IF kind \in SupportedKinds /\ ~libOk
    THEN [bm |-> m, res |-> r, out |-> "LaunchError"]
    ELSE LET r1 == IF kind \in SupportedKinds THEN LibLaunch(r) ELSE r
             m1 == IF kind \in SupportedKinds
                     THEN [m EXCEPT !.browser = Len(r1.browsers)] ELSE m
         IN  IF m1.browser = Null
               THEN [bm |-> m1, res |-> r1, out |-> "TypeError"]
               ELSE [bm |-> m1, res |-> r1, out |-> "ok"]

\* createContext() without its guard clause: the null browser is dereferenced
createContextUnguarded(m, r, libOk) ==
  IF m.browser = Null
    THEN [bm |-> m, res |-> r, out |-> "TypeError"]
    ELSE IF libOk /\ r.browsers[m.browser].st = "open"
      THEN LET r1 == LibNewContext(r, m.browser)
           IN  [bm |-> [m EXCEPT !.context = Len(r1.contexts)], res |-> r1, out |-> "ok"]
      ELSE [bm |-> m, res |-> r, out |-> "LibError"]

createContext(m, r, libOk) ==
  IF m.browser = Null
    THEN [bm |-> m, res |-> r, out |-> "PreconditionError"]
    ELSE IF libOk /\ r.browsers[m.browser].st = "open"
      THEN LET r1 == LibNewContext(r, m.browser)
           IN  [bm |-> [m EXCEPT !.context = Len(r1.contexts)], res |-> r1, out |-> "ok"]
      ELSE [bm |-> m, res |-> r, out |-> "LibError"]

createPage(m, r, libOk) ==
  IF m.context = Null
    THEN [bm |-> m, res |-> r, out |-> "PreconditionError"]
    ELSE IF libOk /\ r.contexts[m.context].st = "open"
      THEN LET r1 == LibNewPage(r, m.context)
           IN  [bm |-> [m EXCEPT !.page = Len(r1.pages)], res |-> r1, out |-> "ok"]
      ELSE [bm |-> m, res |-> r, out |-> "LibError"]

getPage(m) ==
  IF m.page = Null THEN [val |-> Null, out |-> "PreconditionError"]
                   ELSE [val |-> m.page, out |-> "ok"]

getContext(m) ==
  IF m.context = Null THEN [val |-> Null, out |-> "PreconditionError"]
                      ELSE [val |-> m.context, out |-> "ok"]

\* closeBrowser() closing the browser first
CloseSequenceBrowserFirst == << "browser", "context", "page" >>

\* closeBrowser() closing the context in place of the browser
CloseSequenceNoBrowser == << "page", "context", "context" >>

\* closeBrowser(): the order of its three statements, and the guard of each
CloseSequence == << "page", "context", "browser" >>

\* a statement of closeBrowser() without its "if (this.<kind>)"
CloseGuardMissing(h) == TRUE

CloseGuard(h) == h # Null

\* one statement of closeBrowser(): if (this.<kind>) await this.<kind>.close()
closeStatement(m, r, kind) ==
  IF CloseGuard(m[kind])
    THEN IF m[kind] = Null
           THEN [res |-> r, out |-> "TypeError"]
           ELSE [res |-> LibClose(r, kind, m[kind]), out |-> "ok"]
    ELSE [res |-> r, out |-> "ok"]

\* ------------------------------------------------------ setEnvValue
\* The file is held as its lines; a line "k=v" as [key |-> k, val |-> v], a line
\* that is empty or white space only as BlankLine.  A file that does not exist
\* reads as no lines.
BlankLine == [key |-> "", val |-> ""]

\* content.split('\n').filter(line => line.trim() !== '')
NonBlank(lines) == SelectSeq(lines, LAMBDA ln : ln # BlankLine)

\* lines.findIndex(line => line.startsWith(`${key}=`)), 0 for -1
FindIndex(lines, key) ==
  LET hits == {i \in DOMAIN lines : lines[i].key = key}
  IN  IF hits = {} THEN 0 ELSE CHOOSE i \in hits : \A j \in hits : i <= j

\* setEnvValue that pushes its line without looking for the key
SetEnvLinesAppendOnly(lines, key, val) ==
  Append(NonBlank(lines), [key |-> key, val |-> val])

\* the lines written for the lines read: replace the first line of key, or append
SetEnvLines(lines, key, val) ==
  LET kept == NonBlank(lines) IN
  IF FindIndex(kept, key) # 0
    THEN [kept EXCEPT ![FindIndex(kept, key)] = [key |-> key, val |-> val]]
    ELSE Append(kept, [key |-> key, val |-> val])

\* new Date().toLocaleString(): date and time of day to the second
LocaleString(t) == "T" \o ToString(t \div 1000)

\* ---------------------------------------------------------- RESTUtils
\* Playwright's APIRequestContext and APIResponse (library): a request resolves to
\* a response with one of Statuses or rejects; ok() is a 2xx status; a 204 has no
\* body and any other response a JSON body; json() rejects on a body that does
\* not parse, and json() and text() reject once the context that made the
\* response has been disposed of.
Statuses == {200, 201, 204, 404}

\* in place of a status: the request rejected (no connection, time-out)
Rejected == 0

\* RESTUtils with a method for HEAD as well
MethodsAndHead == {"POST", "GET", "PUT", "PATCH", "DELETE", "HEAD"}

\* postTransaction() .. deleteTransaction(), by the method the call step names
Methods == {"POST", "GET", "PUT", "PATCH", "DELETE"}

Accessors == {"getResponseStatusCode", "getResponseStatusLine", "getResponseBody",
              "getResponseAsString"}

\* response.ok()
Ok(status) == status >= 200 /\ status <= 299

\* response.statusText()
StatusText(status) ==
  CASE status = 200 -> "OK" [] status = 201 -> "Created"
    [] status = 204 -> "No Content" [] status = 404 -> "Not Found"

BodyText(status) == IF status = 204 THEN "" ELSE "{code:" \o ToString(status) \o "}"

\* response.text()
LibText(r, resp) ==
  IF r.contexts[resp.cx].st # "open"
    THEN [out |-> "LibError", val |-> Null]
    ELSE [out |-> "ok", val |-> BodyText(resp.status)]

\* response.json()
LibJson(r, resp) ==
  IF r.contexts[resp.cx].st # "open" \/ BodyText(resp.status) = ""
    THEN [out |-> "LibError", val |-> Null]
    ELSE [out |-> "ok", val |-> [code |-> resp.status]]

\* responseBody.access_token
AccessToken(body) == "token-" \o ToString(body.code)

\* setupOAuthResourceURL(resourceURL) / setupTranResourceURL(resourceURL)
setupResourceURL(m, base, resourceURL) ==
  IF base = "oauth" THEN [m EXCEPT !.OAuthResourceURL = resourceURL]
                    ELSE [m EXCEPT !.tranResourceURL = resourceURL]

\* setAPIBodyPayload(payload)
setAPIBodyPayload(m, payload) == [m EXCEPT !.apiBodyPayload = payload]

\* setAPICustomHeaders(headers)
setAPICustomHeaders(m, headers) == [m EXCEPT !.apiCustomHeaders = headers]

\* the resource URL a request context of this base is made for
ResourceURL(m, base) ==
  IF base = "oauth" THEN m.OAuthResourceURL ELSE m.tranResourceURL

\* a setup call that keeps the request context the instance already has
setupRequestLayered(m, r, base, libOk) ==
  IF libOk
    THEN LET r1 == [r EXCEPT !.contexts =
                      Append(@, [st |-> "open", base |-> base, url |-> ResourceURL(m, base)])]
         IN  [rest |-> IF m.apiContext = Null
                         THEN [m EXCEPT !.apiContext = Len(r1.contexts)] ELSE m,
              res |-> r1, out |-> "ok", val |-> Null]
    ELSE [rest |-> m, res |-> r, out |-> "LibError", val |-> Null]

\* setupOAuthRequest() / setupTranRequest(): this.apiContext = await
\* request.newContext({baseURL: <base URL> + <resource URL>, ...})
setupRequest(m, r, base, libOk) ==
  IF libOk
    THEN LET r1 == [r EXCEPT !.contexts =
                      Append(@, [st |-> "open", base |-> base, url |-> ResourceURL(m, base)])]
         IN  [rest |-> [m EXCEPT !.apiContext = Len(r1.contexts)], res |-> r1,
              out |-> "ok", val |-> Null]
    ELSE [rest |-> m, res |-> r, out |-> "LibError", val |-> Null]

\* the resource URLs of the feature file
ResourcePaths == {"/v1/oauth2/token", "/v1/notifications/webhooks"}

\* the headers of the call step: { Authorization: `Bearer ${oauthToken}` }
SomeHeaders == [t |-> "object", s |-> "{Authorization}"]

\* a send that keeps the response to itself
StoreResponseDropped(m, resp) == m

\* this.response = <the response>
StoreResponse(m, resp) == [m EXCEPT !.response = resp]

\* postTransaction() with its status check enabled
ThrowingSendsWithPost == {"OAuth", "DELETE", "POST"}

\* getOAuthToken() without its status check
ThrowingSendsNoOAuth == {"DELETE"}

\* the sends that check response.ok() and throw: getOAuthToken and deleteTransaction
ThrowingSends == {"OAuth", "DELETE"}

\* getOAuthToken() ("OAuth") and postTransaction() .. deleteTransaction(): the
\* request on this.apiContext, the assignment to this.response, the status check
send(m, r, method, lib) ==
  IF m.apiContext = Null
    THEN [rest |-> m, res |-> r, out |-> "TypeError", val |-> Null]
    ELSE IF lib = Rejected \/ r.contexts[m.apiContext].st # "open"
      THEN [rest |-> m, res |-> r, out |-> "LibError", val |-> Null]
      ELSE LET resp == [status |-> lib, cx |-> m.apiContext]
               m1 == StoreResponse(m, resp)
               r1 == [r EXCEPT !.delivered = resp]
           IN  IF ~Ok(lib) /\ method \in ThrowingSends
                 THEN [rest |-> m1, res |-> r1, val |-> Null,
                       out |-> IF method = "OAuth" THEN "AuthError" ELSE "TransactionError"]
                 ELSE [rest |-> m1, res |-> r1, out |-> "ok", val |-> m1.response]

\* an accessor without its "if (!this.response)"
HasNoResponseNever(resp) == FALSE

\* !this.response
HasNoResponse(resp) == resp = NoResponse

\* getResponseStatusCode(), getResponseStatusLine(), getResponseBody(),
\* getResponseAsString()
accessor(m, r, op) ==
  IF HasNoResponse(m.response)
    THEN [out |-> "NoResponseError", val |-> Null]
    ELSE IF m.response = NoResponse
      THEN [out |-> "TypeError", val |-> Null]
      ELSE CASE op = "getResponseStatusCode" -> [out |-> "ok", val |-> m.response.status]
             [] op = "getResponseStatusLine" ->
                  [out |-> "ok", val |-> StatusText(m.response.status)]
             [] op = "getResponseBody" -> LibJson(r, m.response)
             [] op = "getResponseAsString" -> LibText(r, m.response)

\* disposeAPIContext(): if (this.apiContext) await this.apiContext.dispose()
disposeAPIContext(m, r) ==
  IF m.apiContext # Null
    THEN [r EXCEPT !.contexts[m.apiContext].st = "disposed"]
    ELSE r

\* ------------------------------------------------ PaypalAPI_Steps.ts
\* A JSON value is [t |-> its type, s |-> its text]; a request object is held as
\* the function from the JSONPath of each of its members to the member's value.
\* A cell of a data table is the sequence of its pieces, "<random>" being one
\* piece; Gherkin hands cells over trimmed, so value.trim() changes none.
TableValues == { << >>, << "ab" >>, << "7" >>, << "TRUE" >>, << "null" >>,
                 << "<random>" >>, << "ab", "<random>" >> }

\* the paths of the rows: two members of the request objects and one they lack
TablePaths == {"$.url", "$.id", "$.name"}

\* the fixture file: scenario name -> request object
Fixtures ==
  [n \in {"Scenario1", "Scenario3"} |->
     [q \in {"$.url", "$.id"} |->
        IF q = "$.url" THEN [t |-> "string", s |-> "https://" \o n]
                       ELSE [t |-> "number", s |-> "1"]]]

\* finalValue.replace(/<random>/g, String(random3))
Replaced(v, n) == [i \in DOMAIN v |-> IF v[i] = "<random>" THEN ToString(n) ELSE v[i]]

RECURSIVE Text(_)
\* the string the pieces make
Text(v) == IF v = << >> THEN "" ELSE Head(v) \o Text(Tail(v))

\* toLowerCase()
Lower(v) == [i \in DOMAIN v |-> IF v[i] = "TRUE" THEN "true" ELSE v[i]]

\* String(random3) for every random3 of Math.floor(100 + Math.random() * 900)
Numerals == {ToString(n) : n \in RandomMin..RandomMax}

\* !isNaN(Number(value)): digits only; Number('') is 0
IsNumber(v) == \A i \in DOMAIN v : v[i] = "7" \/ v[i] \in Numerals

\* parseSmartValue that returns its argument
parseSmartValueAsText(v) == [t |-> "string", s |-> Text(v)]

\* parseSmartValue(value)
parseSmartValue(v) ==
  LET trimmed == Text(Lower(v)) IN
  CASE trimmed = "true" -> [t |-> "boolean", s |-> "true"]
    [] trimmed = "false" -> [t |-> "boolean", s |-> "false"]
    [] trimmed = "null" -> [t |-> "null", s |-> "null"]
    [] trimmed = "undefined" -> JUndefined
    [] OTHER -> IF IsNumber(v)
                  THEN [t |-> "number", s |-> IF v = << >> THEN "0" ELSE Text(v)]
                  ELSE [t |-> "string", s |-> Text(v)]

RECURSIVE modifyPayload(_, _, _)
\* the loop over dataTable.hashes(): JSONPath calls back for each location the
\* path selects, none when the object has no such member, and the callback
\* assigns parseSmartValue(finalValue) there; rnd[i] is the random3 of row i
modifyPayload(obj, rows, rnd) ==
  IF rows = << >>
    THEN obj
    ELSE LET row == Head(rows)
             finalValue == Replaced(row.value, Head(rnd))
             obj1 == IF row.jsonPath \in DOMAIN obj
                       THEN [obj EXCEPT ![row.jsonPath] = parseSmartValue(finalValue)]
                       ELSE obj
         IN  modifyPayload(obj1, Tail(rows), Tail(rnd))

\* the JSON null
JNull == [t |-> "null", s |-> "null"]

\* !value of a JSON value: undefined, null, '', 0 and false are falsy
Falsy(v) ==
  \/ v.t \in {"undefined", "null"}
  \/ v.t = "string" /\ v.s = ""
  \/ v.t = "number" /\ v.s = "0"
  \/ v.t = "boolean" /\ v.s = "false"

\* a step that takes every key of testData to hold a value
NoValueNever(map, key) == FALSE

\* const value = this.testData.get(key); if (!value): the key is absent or the
\* value stored under it is falsy (an object or a token is not)
NoValue(map, key) ==
  \/ key \notin DOMAIN map
  \/ key \notin {"requestObject", "responseObject", "OAuthToken"} /\ Falsy(map[key])

\* the resource URLs of the manipulating step: key is the placeholder of the
\* template, "" when it has none
Templates ==
  { [prefix |-> "/v1/notifications/webhooks", key |-> ""],
    [prefix |-> "/v1/notifications/webhooks/", key |-> "webhookId"] }

\* what JSONPath({path, json: responseObject, wrap: false}) finds in a response
\* body: an id, an empty string, a zero, or nothing at all
ExtractedValues ==
  { [t |-> "string", s |-> "WH-1"], [t |-> "string", s |-> ""],
    [t |-> "number", s |-> "0"], JUndefined }

\* the methods a scenario may name in the call step: those of RESTUtils and one
\* it has no method for
CallMethods == Methods \cup {"HEAD"}

\* resourceUrl.replace(/{(\w+)}/g, (_, key) => ...): the error for the key, or
\* the URL with String(value) in the placeholder's place
manipulatedUrl(map, tpl) ==
  IF tpl.key = ""
    THEN [out |-> "ok", url |-> tpl.prefix]
    ELSE IF NoValue(map, tpl.key)
      THEN [out |-> "NoValueError:" \o tpl.key, url |-> tpl.prefix]
      ELSE [out |-> "ok", url |-> tpl.prefix \o map[tpl.key].s]

\* ------------------------------------------- CustomWorld and BasePage
PageObjects == {"loginPage", "homePage"}

\* a getter that never finds its field set
CachedNever(w, kind) == FALSE

\* !this._loginPage, !this._homePage, !this._restUtils, negated
Cached(w, kind) == w[kind] # NoObj

\* get loginPage() / get homePage(): the cached instance, or a new page object
\* whose constructor reads the manager's page; browserManager.getPage() throws
\* when the manager has no page.  get restUtils(): the cached instance, or
\* new RESTUtils().  n is the number of objects constructed before the call.
worldGet(w, m, kind, n) ==
  IF Cached(w, kind)
    THEN [world |-> w, out |-> "ok", val |-> w[kind].id, made |-> 0]
    ELSE IF kind \in PageObjects /\ getPage(m).out # "ok"
      THEN [world |-> w, out |-> getPage(m).out, val |-> 0, made |-> 0]
      ELSE LET o == [id |-> n + 1,
                     page |-> IF kind \in PageObjects THEN getPage(m).val ELSE Null]
           IN  [world |-> [w EXCEPT ![kind] = o], out |-> "ok", val |-> o.id, made |-> 1]

\* this.page.context().pages(): the open pages of the page's context, oldest first
ContextPages(r, p) ==
  SelectSeq([i \in DOMAIN r.pages |-> i],
            LAMBDA i : r.pages[i].cx = r.pages[p].cx /\ r.pages[i].st = "open")

\* BasePage.clickAndSwitchToNewTab(selector) on page object o: the click opens a
\* page in the context of this.page and this.page = newPage, or the click or the
\* wait for the page event rejects
clickAndSwitchToNewTab(o, r, libOk) ==
  IF libOk /\ r.pages[o.page].st = "open"
    THEN LET r1 == LibNewPage(r, r.pages[o.page].cx)
         IN  [obj |-> [o EXCEPT !.page = Len(r1.pages)], res |-> r1, out |-> "ok"]
    ELSE [obj |-> o, res |-> r, out |-> "LibError"]

\* BasePage.closeChildTabAndSwitchBackToParentTab() on page object o:
\* this.page.close(), then this.page = this.page.context().pages()[0] after
\* parentPage.bringToFront(), which throws when no page is left
closeChildTabAndSwitchBackToParentTab(o, r) ==
  LET r1 == LibClose(r, "page", o.page)
      pages == ContextPages(r1, o.page)
  IN  IF pages = << >>
        THEN [obj |-> o, res |-> r1, out |-> "TypeError"]
        ELSE [obj |-> [o EXCEPT !.page = pages[1]], res |-> r1, out |-> "ok"]

\* ------------------------------------------------------------- state
Init ==
  /\ cfgBrowser \in BrowserChoices
  /\ now = 0
  /\ envFile = << [key |-> "BROWSER", val |-> cfgBrowser] >>
  /\ nextPickle = 1
  /\ pc = [l \in Lanes |-> "beforeAll"]
  /\ cur = [l \in Lanes |-> Null]
  /\ ret = [l \in Lanes |-> "none"]
  /\ closeIdx = [l \in Lanes |-> 0]
  /\ envBuf = [l \in Lanes |-> << >>]
  /\ envReq = [l \in Lanes |-> NoReq]
  /\ lastCall = [l \in Lanes |-> NoCall]
  /\ orphans = [l \in Lanes |-> 0]
  /\ bm = [s \in Scen |-> NewManager]
  /\ wpage = [s \in Scen |-> Null]
  /\ testData = [s \in Scen |-> EmptyMap]
  /\ result = [s \in Scen |-> NoResult]
  /\ attachments = [s \in Scen |-> << >>]
  /\ res = [s \in Scen |-> NoRes]
  /\ phase = [s \in Scen |-> "pending"]
  /\ hist = [s \in Scen |-> NewHist]
  /\ hookStatus = [s \in Scen |-> "none"]
  /\ envLast = EmptyMap
  /\ insVarMenuLink = [l \in Lanes |-> Undefined]
  /\ menuRead = [s \in Scen |-> NoRead]
  /\ rest = [s \in Scen |-> NewRESTUtils]
  /\ restRes = [s \in Scen |-> NoRestRes]
  /\ restCall = [l \in Lanes |-> NoRestCall]
  /\ wobj = [s \in Scen |-> NewWorld]
  /\ heap = 0
  /\ stepCall = [l \in Lanes |-> NoStep]

\* Date.now() / new Date(): the clock has not gone back since it was last read
ClockReadings == now..MaxTime

\* ------------------------------------------------ calls shared by hooks
\* await setEnvValue(key, val): the call, up to fs.readFileSync
CallSetEnv(l, key, val, back) ==
  /\ envReq' = [envReq EXCEPT ![l] = [key |-> key, val |-> val]]
  /\ ret' = [ret EXCEPT ![l] = back]
  /\ pc' = [pc EXCEPT ![l] = "env_read"]

\* setEnvValue: content = fs.readFileSync(ENV_PATH)
EnvRead(l) ==
  /\ pc[l] = "env_read"
  /\ envBuf' = [envBuf EXCEPT ![l] = envFile]
  /\ pc' = [pc EXCEPT ![l] = "env_write"]
  /\ UNCHANGED << cfgBrowser, now, envFile, nextPickle, cur, ret, closeIdx, envReq,
                  lastCall, orphans, worldVars, res >>
  /\ UNCHANGED extVars

\* setEnvValue: fs.writeFileSync(ENV_PATH, lines), and the return to the caller
EnvWrite(l) ==
  /\ pc[l] = "env_write"
  /\ envFile' = SetEnvLines(envBuf[l], envReq[l].key, envReq[l].val)
  /\ pc' = [pc EXCEPT ![l] = ret[l]]
  /\ hist' = IF envReq[l].key = VersionKey
               THEN [hist EXCEPT ![cur[l]].version = @ + 1] ELSE hist
  /\ envBuf' = [envBuf EXCEPT ![l] = << >>]
  /\ envReq' = [envReq EXCEPT ![l] = NoReq]
  /\ ret' = [ret EXCEPT ![l] = "none"]
  /\ UNCHANGED << cfgBrowser, now, nextPickle, cur, closeIdx, lastCall, orphans,
                  bm, wpage, testData, result, attachments, phase, res >>
  /\ envLast' = MapSet(envLast, envReq[l].key, envReq[l].val)
  /\ UNCHANGED << hookStatus, insVarMenuLink, menuRead, restVars, objVars >>

\* await this.browserManager.closeBrowser(): the call
CallClose(l, back) ==
  /\ closeIdx' = [closeIdx EXCEPT ![l] = 1]
  /\ ret' = [ret EXCEPT ![l] = back]
  /\ pc' = [pc EXCEPT ![l] = "closing"]
  /\ lastCall' = [lastCall EXCEPT ![l] =
       [op |-> "closeBrowser", out |-> "running", pre |-> bm[cur[l]],
        preRes |-> res[cur[l]],
        afterClose |-> (lastCall[l].op = "closeBrowser" /\ lastCall[l].out = "ok")]]

\* a hook that throws is over: the scenario's hooks are done, the lane is idle
HookThrows(l) ==
  /\ phase' = [phase EXCEPT ![cur[l]] = "done"]
  /\ hookStatus' = [hookStatus EXCEPT ![cur[l]] = "failed"]
  /\ pc' = [pc EXCEPT ![l] = "idle"]

\* one statement of closeBrowser(); after the last one the call returns, and a
\* statement that throws ends the call and the hook that made it
CloseStep(l) ==
  /\ pc[l] = "closing"
  /\ LET s == cur[l]
         c == closeStatement(bm[s], res[s], CloseSequence[closeIdx[l]])
         over == c.out # "ok" \/ closeIdx[l] = Len(CloseSequence)
     IN  /\ res' = [res EXCEPT ![s] = c.res]
         /\ closeIdx' = [closeIdx EXCEPT ![l] = IF over THEN 0 ELSE @ + 1]
         /\ lastCall' = [lastCall EXCEPT ![l].out = IF over THEN c.out ELSE @]
         /\ ret' = [ret EXCEPT ![l] = IF over THEN "none" ELSE @]
         /\ IF c.out # "ok" /\ ret[l] = "after_clear"
              THEN HookThrows(l)
              ELSE /\ pc' = [pc EXCEPT ![l] = IF over THEN ret[l] ELSE @]
                   /\ UNCHANGED << phase, hookStatus >>
  /\ UNCHANGED << cfgBrowser, now, envFile, nextPickle, cur, envBuf, envReq, orphans,
                  bm, wpage, testData, result, attachments, hist >>
  /\ UNCHANGED << envLast, insVarMenuLink, menuRead, restVars, objVars >>

\* ------------------------------------------------------------- hooks
\* BeforeAll: await setEnvValue('TEST_STARTED_TIME', new Date().toLocaleString())
BeforeAll(l) ==
  /\ pc[l] = "beforeAll"
  /\ \E t \in ClockReadings :
       /\ now' = t
       /\ CallSetEnv(l, "TEST_STARTED_TIME", LocaleString(t), "idle")
  /\ UNCHANGED << cfgBrowser, envFile, nextPickle, cur, closeIdx, envBuf, lastCall,
                  orphans, worldVars, res >>
  /\ UNCHANGED extVars

\* the World of the scenario the lane has finished is dropped; the browser
\* processes it did not close keep running
Dropped(f, l, fresh) == IF cur[l] = Null THEN f ELSE [f EXCEPT ![cur[l]] = fresh]

OpenBrowsers(r) == Cardinality({b \in DOMAIN r.browsers : r.browsers[b].st = "open"})

DropWorld(l) ==
  /\ bm' = Dropped(bm, l, NewManager)
  /\ wpage' = Dropped(wpage, l, Null)
  /\ testData' = Dropped(testData, l, EmptyMap)
  /\ result' = Dropped(result, l, NoResult)
  /\ attachments' = Dropped(attachments, l, << >>)
  /\ res' = Dropped(res, l, NoRes)
  /\ hist' = Dropped(hist, l, NewHist)
  /\ hookStatus' = Dropped(hookStatus, l, "none")
  /\ menuRead' = Dropped(menuRead, l, NoRead)
  /\ rest' = Dropped(rest, l, NewRESTUtils)
  /\ restRes' = Dropped(restRes, l, NoRestRes)
  /\ restCall' = [restCall EXCEPT ![l] = NoRestCall]
  /\ wobj' = Dropped(wobj, l, NewWorld)
  /\ stepCall' = [stepCall EXCEPT ![l] = NoStep]
  /\ lastCall' = [lastCall EXCEPT ![l] = NoCall]
  /\ orphans' = [orphans EXCEPT ![l] =
                   IF cur[l] = Null THEN @ ELSE @ + OpenBrowsers(res[cur[l]])]

\* the coordinator hands the next pickle to an idle lane, which builds its World
TakePickle(l) ==
  /\ pc[l] = "idle"
  /\ nextPickle <= NScen
  /\ DropWorld(l)
  /\ cur' = [cur EXCEPT ![l] = nextPickle]
  /\ nextPickle' = nextPickle + 1
  /\ phase' = [Dropped(phase, l, "gone") EXCEPT ![nextPickle] = "setup"]
  /\ pc' = [pc EXCEPT ![l] = "before_launch"]
  /\ UNCHANGED << cfgBrowser, now, envFile, ret, closeIdx, envBuf, envReq >>
  /\ UNCHANGED << envLast, insVarMenuLink, heap >>

\* whether the Before hook returns before acquiring a browser for these tags:
\* the hook never reads pickle.tags
BeforeSkipsBrowser(tags) == FALSE

\* a Before hook that throws: the scenario is failed, its steps are skipped and
\* its After hook runs
BeforeThrows(l) ==
  /\ result' = [result EXCEPT ![cur[l]] = [status |-> "failed", message |-> TRUE]]
  /\ phase' = [phase EXCEPT ![cur[l]] = "teardown"]
  /\ pc' = [pc EXCEPT ![l] = "after"]

\* the Before hook building the email from the timestamp alone
SeedEmailWithoutId(td, id, t1, t2) ==
  MapSet(MapSet(MapSet(td, "scenarioId", id), "timestamp", t1),
         "uniqueEmail", "test_" \o ToString(t2) \o "@example.com")

\* the Before hook without its testData.set('timestamp', ...)
SeedWithoutTimestamp(td, id, t1, t2) ==
  MapSet(MapSet(td, "scenarioId", id),
         "uniqueEmail", "test_" \o id \o "_" \o ToString(t2) \o "@example.com")

\* what the Before hook stores in testData
SeedTestData(td, id, t1, t2) ==
  MapSet(MapSet(MapSet(td, "scenarioId", id), "timestamp", t1),
         "uniqueEmail", "test_" \o id \o "_" \o ToString(t2) \o "@example.com")

\* the record of a BrowserManager call kept for the lane
Called(op, out, s) ==
  [op |-> op, out |-> out, pre |-> bm[s], preRes |-> res[s], afterClose |-> FALSE]

\* Before, STEP 1: await this.browserManager.launchBrowser(this)
BeforeLaunch(l) ==
  /\ pc[l] = "before_launch"
  /\ ~BeforeSkipsBrowser(PickleTags(cur[l]))
  /\ \E libOk \in BOOLEAN :
       LET s == cur[l]
           c == launchBrowser(bm[s], res[s], cfgBrowser, libOk)
       IN  /\ bm' = [bm EXCEPT ![s] = c.bm]
           /\ res' = [res EXCEPT ![s] = c.res]
           /\ hist' = [hist EXCEPT ![s].launch = @ + 1]
           /\ lastCall' = [lastCall EXCEPT ![l] = Called("launchBrowser", c.out, s)]
           /\ IF c.out = "ok"
                THEN /\ CallSetEnv(l, VersionKey, BrowserVersion(cfgBrowser),
                                   "before_context")
                     /\ UNCHANGED << result, phase >>
                ELSE /\ BeforeThrows(l)
                     /\ UNCHANGED << envReq, ret >>
  /\ UNCHANGED << cfgBrowser, now, envFile, nextPickle, cur, closeIdx, envBuf, orphans,
                  wpage, testData, attachments >>
  /\ UNCHANGED extVars

\* Before, STEP 2: await this.browserManager.createContext()
BeforeContext(l) ==
  /\ pc[l] = "before_context"
  /\ \E libOk \in BOOLEAN :
       LET s == cur[l]
           c == createContext(bm[s], res[s], libOk)
       IN  /\ bm' = [bm EXCEPT ![s] = c.bm]
           /\ res' = [res EXCEPT ![s] = c.res]
           /\ lastCall' = [lastCall EXCEPT ![l] = Called("createContext", c.out, s)]
           /\ IF c.out = "ok"
                THEN /\ pc' = [pc EXCEPT ![l] = "before_page"]
                     /\ UNCHANGED << result, phase >>
                ELSE BeforeThrows(l)
  /\ UNCHANGED << cfgBrowser, now, envFile, nextPickle, cur, ret, closeIdx, envBuf,
                  envReq, orphans, wpage, testData, attachments, hist >>
  /\ UNCHANGED extVars

\* Before, STEP 3 and 4: this.page = await this.browserManager.createPage(), then
\* the three testData.set calls with their two Date.now() readings
BeforePage(l) ==
  /\ pc[l] = "before_page"
  /\ \E libOk \in BOOLEAN, t1 \in ClockReadings, t2 \in ClockReadings :
       LET s == cur[l]
           c == createPage(bm[s], res[s], libOk)
       IN  /\ t1 <= t2
           /\ bm' = [bm EXCEPT ![s] = c.bm]
           /\ res' = [res EXCEPT ![s] = c.res]
           /\ lastCall' = [lastCall EXCEPT ![l] = Called("createPage", c.out, s)]
           /\ IF c.out = "ok"
                THEN /\ wpage' = [wpage EXCEPT ![s] = c.bm.page]
                     /\ testData' = [testData EXCEPT ![s] =
                                       SeedTestData(@, PickleId(s), t1, t2)]
                     /\ now' = t2
                     /\ phase' = [phase EXCEPT ![s] = "run"]
                     /\ pc' = [pc EXCEPT ![l] = "run"]
                     /\ UNCHANGED result
                ELSE /\ t1 = now /\ t2 = now
                     /\ BeforeThrows(l)
                     /\ UNCHANGED << wpage, testData, now >>
  /\ UNCHANGED << cfgBrowser, envFile, nextPickle, cur, ret, closeIdx, envBuf,
                  envReq, orphans, attachments, hist >>
  /\ UNCHANGED extVars

\* ScenarioRun: a step passes (steps write to testData)
StepPasses(l) ==
  /\ pc[l] = "run"
  /\ hist[cur[l]].steps < MaxSteps
  /\ hist' = [hist EXCEPT ![cur[l]].steps = @ + 1]
  /\ testData' = [testData EXCEPT ![cur[l]] = MapSet(@, "OAuthToken", "token")]
  /\ UNCHANGED << cfgBrowser, now, envFile, nextPickle, laneVars, bm, wpage, result,
                  attachments, phase, res >>
  /\ UNCHANGED extVars

\* ScenarioRun: a step throws; the steps after it are skipped
StepThrows(l) ==
  /\ pc[l] = "run"
  /\ result' = [result EXCEPT ![cur[l]] = [status |-> "failed", message |-> TRUE]]
  /\ phase' = [phase EXCEPT ![cur[l]] = "teardown"]
  /\ pc' = [pc EXCEPT ![l] = "after"]
  /\ UNCHANGED << cfgBrowser, now, envFile, nextPickle, cur, ret, closeIdx, envBuf,
                  envReq, lastCall, orphans, bm, wpage, testData, attachments, hist,
                  res >>
  /\ UNCHANGED extVars

\* ScenarioRun: the last step passed
StepsDone(l) ==
  /\ pc[l] = "run"
  /\ hist[cur[l]].steps >= 1
  /\ result' = [result EXCEPT ![cur[l]] = [status |-> "passed", message |-> FALSE]]
  /\ phase' = [phase EXCEPT ![cur[l]] = "teardown"]
  /\ pc' = [pc EXCEPT ![l] = "after"]
  /\ UNCHANGED << cfgBrowser, now, envFile, nextPickle, cur, ret, closeIdx, envBuf,
                  envReq, lastCall, orphans, bm, wpage, testData, attachments, hist,
                  res >>
  /\ UNCHANGED extVars

\* the menu names the feature files pass to the hover step
MenuNames == {"Enterprise"}

\* the end of a step: it passed, or it threw and the steps after it are skipped
StepEnds(l, ok) ==
  IF ok
    THEN /\ hist' = [hist EXCEPT ![cur[l]].steps = @ + 1]
         /\ UNCHANGED << pc, result, phase >>
    ELSE /\ result' = [result EXCEPT ![cur[l]] = [status |-> "failed", message |-> TRUE]]
         /\ phase' = [phase EXCEPT ![cur[l]] = "teardown"]
         /\ pc' = [pc EXCEPT ![l] = "after"]
         /\ UNCHANGED hist

\* step 'I hover over the {string} menu link': insVarMenuLink = menuName, then
\* await this.loginPage.hoverOverElement(menuName), which resolves or rejects
StepHover(l) ==
  /\ pc[l] = "run"
  /\ hist[cur[l]].steps < MaxSteps
  /\ \E menuName \in MenuNames, ok \in BOOLEAN :
       /\ insVarMenuLink' = [insVarMenuLink EXCEPT ![l] = [val |-> menuName, by |-> cur[l]]]
       /\ StepEnds(l, ok)
  /\ UNCHANGED << cfgBrowser, now, envFile, nextPickle, cur, ret, closeIdx, envBuf,
                  envReq, lastCall, orphans, bm, wpage, testData, attachments, res,
                  hookStatus, envLast, menuRead, restVars, objVars >>

\* step 'I verify the {string} submenu is displayed':
\* expect(await this.loginPage.isSubMenuVisible(insVarMenuLink, subMenuName)).to.be.true
StepVerifySubmenu(l) ==
  /\ pc[l] = "run"
  /\ hist[cur[l]].steps < MaxSteps
  /\ menuRead' = [menuRead EXCEPT ![cur[l]] = insVarMenuLink[l]]
  /\ \E visible \in BOOLEAN : StepEnds(l, visible)
  /\ UNCHANGED << cfgBrowser, now, envFile, nextPickle, cur, ret, closeIdx, envBuf,
                  envReq, lastCall, orphans, bm, wpage, testData, attachments, res,
                  hookStatus, envLast, insVarMenuLink, restVars, objVars >>

\* After: the failure branch up to await this.page.screenshot(), or straight to
\* await this.browserManager.closeBrowser()
AfterStart(l) ==
  /\ pc[l] = "after"
  /\ LET s == cur[l] IN
       IF result[s].status = "failed" /\ wpage[s] # Null
         THEN /\ attachments' = [attachments EXCEPT ![s] =
                   IF result[s].message THEN Append(@, "text/plain") ELSE @]
              /\ pc' = [pc EXCEPT ![l] = "after_shot"]
              /\ UNCHANGED << ret, closeIdx, hist, lastCall >>
         ELSE /\ CallClose(l, "after_clear")
              /\ hist' = [hist EXCEPT ![s].close = @ + 1]
              /\ UNCHANGED attachments
  /\ UNCHANGED << cfgBrowser, now, envFile, nextPickle, cur, envBuf, envReq, orphans,
                  bm, wpage, testData, result, phase, res >>
  /\ UNCHANGED extVars

\* After: the screenshot resolves and is attached, or rejects and the hook throws
AfterShot(l) ==
  /\ pc[l] = "after_shot"
  /\ \E libOk \in BOOLEAN :
       IF libOk /\ res[cur[l]].pages[wpage[cur[l]]].st = "open"
         THEN /\ attachments' = [attachments EXCEPT ![cur[l]] = Append(@, "image/png")]
              /\ CallClose(l, "after_clear")
              /\ hist' = [hist EXCEPT ![cur[l]].close = @ + 1]
              /\ UNCHANGED << phase, hookStatus >>
         ELSE /\ HookThrows(l)
              /\ UNCHANGED << attachments, ret, closeIdx, hist, lastCall >>
  /\ UNCHANGED << cfgBrowser, now, envFile, nextPickle, cur, envBuf, envReq, orphans,
                  bm, wpage, testData, result, res >>
  /\ UNCHANGED << envLast, insVarMenuLink, menuRead, restVars, objVars >>

\* After: this.testData.clear(), the hook's last statement
AfterClear(l) ==
  /\ pc[l] = "after_clear"
  /\ testData' = [testData EXCEPT ![cur[l]] = EmptyMap]
  /\ hist' = [hist EXCEPT ![cur[l]].clear = @ + 1]
  /\ phase' = [phase EXCEPT ![cur[l]] = "done"]
  /\ pc' = [pc EXCEPT ![l] = "idle"]
  /\ UNCHANGED << cfgBrowser, now, envFile, nextPickle, cur, ret, closeIdx, envBuf,
                  envReq, lastCall, orphans, bm, wpage, result, attachments, res >>
  /\ hookStatus' = [hookStatus EXCEPT ![cur[l]] = "passed"]
  /\ UNCHANGED << envLast, insVarMenuLink, menuRead, restVars, objVars >>

\* the status Cucumber reports for a scenario: failed when a step, the Before hook
\* or the After hook failed, else the status of its steps
Reported(s) ==
  IF hookStatus[s] = "failed" THEN "failed" ELSE result[s].status

\* AfterAll, once no pickle is left for the lane:
\* await setEnvValue('TEST_COMPLETED_TIME', new Date().toLocaleString())
AfterAll(l) ==
  /\ pc[l] = "idle"
  /\ nextPickle > NScen
  /\ DropWorld(l)
  /\ phase' = Dropped(phase, l, "gone")
  /\ cur' = [cur EXCEPT ![l] = Null]
  /\ \E t \in ClockReadings :
       /\ now' = t
       /\ CallSetEnv(l, "TEST_COMPLETED_TIME", LocaleString(t), "finished")
  /\ UNCHANGED << cfgBrowser, envFile, nextPickle, closeIdx, envBuf >>
  /\ UNCHANGED << envLast, insVarMenuLink, heap >>

Next ==
  \E l \in Lanes :
    \/ BeforeAll(l) \/ TakePickle(l)
    \/ BeforeLaunch(l) \/ BeforeContext(l) \/ BeforePage(l)
    \/ StepPasses(l) \/ StepThrows(l) \/ StepsDone(l)
    \/ AfterStart(l) \/ AfterShot(l) \/ AfterClear(l)
    \/ EnvRead(l) \/ EnvWrite(l) \/ CloseStep(l)
    \/ AfterAll(l)

Spec == Init /\ [][Next]_vars

\* ------------------------------------- the hooks with the submenu steps
\* The run of Spec, with config.browser at its default, whose scenarios also use
\* the two steps of GithubLogin_Steps.ts that go through insVarMenuLink.
InitSteps == Init /\ cfgBrowser = "chromium"

NextSteps ==
  \/ Next
  \/ \E l \in Lanes : StepHover(l) \/ StepVerifySubmenu(l)

SpecSteps == InitSteps /\ [][NextSteps]_vars

\* ------------------------------------- the hooks with a REST client step
\* step 'I form a client with this resource url {string}':
\* setupTranResourceURL(resource), then setupTranRequest(), which resolves or
\* rejects
StepFormClient(l) ==
  /\ pc[l] = "run"
  /\ hist[cur[l]].steps < MaxSteps
  /\ \E resource \in ResourcePaths, libOk \in BOOLEAN :
       LET s == cur[l]
           c == setupRequest(setupResourceURL(rest[s], "tran", resource), restRes[s],
                             "tran", libOk)
       IN  /\ rest' = [rest EXCEPT ![s] = c.rest]
           /\ restRes' = [restRes EXCEPT ![s] = c.res]
           /\ restCall' = [restCall EXCEPT ![l] =
                             [op |-> "setupRequest", out |-> c.out, val |-> Null]]
           /\ StepEnds(l, c.out = "ok")
  /\ UNCHANGED << cfgBrowser, now, envFile, nextPickle, cur, ret, closeIdx, envBuf,
                  envReq, lastCall, orphans, bm, wpage, testData, attachments, res,
                  hookStatus, envLast, insVarMenuLink, menuRead, objVars >>

\* The run of Spec, with config.browser at its default, whose scenarios also use
\* that step.
NextClient ==
  \/ Next
  \/ \E l \in Lanes : StepFormClient(l)

SpecClient == InitSteps /\ [][NextClient]_vars

\* ---------------------------------------------- setEnvValue on its own
\* Callers in the worker processes (one per lane) invoke setEnvValue with any key
\* and value, on a file of up to MaxLines lines with at most one line per key, as
\* setEnvValue itself keeps it.
EnvKeys == {"BROWSER", "TEST_STARTED_TIME"}
EnvVals == {"T0", "T1"}
EnvLines == {BlankLine} \cup [key : EnvKeys, val : EnvVals]

OneLinePerKey(lines) ==
  \A i \in DOMAIN lines : \A j \in DOMAIN lines :
    (i # j /\ lines[i] # BlankLine) => lines[i].key # lines[j].key

EnvFiles ==
  {f \in UNION {[1..n -> EnvLines] : n \in 0..MaxLines} : OneLinePerKey(f)}

InitEnv ==
  /\ cfgBrowser = "chromium"
  /\ now = 0
  /\ envFile \in EnvFiles
  /\ nextPickle = NScen + 1
  /\ pc = [l \in Lanes |-> "env_idle"]
  /\ cur = [l \in Lanes |-> Null]
  /\ ret = [l \in Lanes |-> "none"]
  /\ closeIdx = [l \in Lanes |-> 0]
  /\ envBuf = [l \in Lanes |-> << >>]
  /\ envReq = [l \in Lanes |-> NoReq]
  /\ lastCall = [l \in Lanes |-> NoCall]
  /\ orphans = [l \in Lanes |-> 0]
  /\ bm = [s \in Scen |-> NewManager]
  /\ wpage = [s \in Scen |-> Null]
  /\ testData = [s \in Scen |-> EmptyMap]
  /\ result = [s \in Scen |-> NoResult]
  /\ attachments = [s \in Scen |-> << >>]
  /\ res = [s \in Scen |-> NoRes]
  /\ phase = [s \in Scen |-> "pending"]
  /\ hist = [s \in Scen |-> NewHist]
  /\ hookStatus = [s \in Scen |-> "none"]
  /\ envLast = EmptyMap
  /\ insVarMenuLink = [l \in Lanes |-> Undefined]
  /\ menuRead = [s \in Scen |-> NoRead]
  /\ rest = [s \in Scen |-> NewRESTUtils]
  /\ restRes = [s \in Scen |-> NoRestRes]
  /\ restCall = [l \in Lanes |-> NoRestCall]
  /\ wobj = [s \in Scen |-> NewWorld]
  /\ heap = 0
  /\ stepCall = [l \in Lanes |-> NoStep]

\* await setEnvValue(key, val)
DirectSetEnv(l) ==
  /\ pc[l] = "env_idle"
  /\ \E key \in EnvKeys, val \in EnvVals : CallSetEnv(l, key, val, "env_idle")
  /\ UNCHANGED << cfgBrowser, now, envFile, nextPickle, cur, closeIdx, envBuf, lastCall,
                  orphans, worldVars, res >>
  /\ UNCHANGED extVars

NextEnv == \E l \in Lanes : DirectSetEnv(l) \/ EnvRead(l) \/ EnvWrite(l)

SpecEnv == InitEnv /\ [][NextEnv]_vars

\* ------------------------------------------- a BrowserManager on its own
\* One manager (that of World 1) whose methods a caller (lane 1) invokes in any
\* order, each call awaited before the next.
InitBM ==
  /\ cfgBrowser \in BrowserChoices
  /\ now = 0
  /\ envFile = << [key |-> "BROWSER", val |-> cfgBrowser] >>
  /\ nextPickle = NScen + 1
  /\ pc = [l \in Lanes |-> IF l = 1 THEN "bm_idle" ELSE "off"]
  /\ cur = [l \in Lanes |-> IF l = 1 THEN 1 ELSE Null]
  /\ ret = [l \in Lanes |-> "none"]
  /\ closeIdx = [l \in Lanes |-> 0]
  /\ envBuf = [l \in Lanes |-> << >>]
  /\ envReq = [l \in Lanes |-> NoReq]
  /\ lastCall = [l \in Lanes |-> NoCall]
  /\ orphans = [l \in Lanes |-> 0]
  /\ bm = [s \in Scen |-> NewManager]
  /\ wpage = [s \in Scen |-> Null]
  /\ testData = [s \in Scen |-> EmptyMap]
  /\ result = [s \in Scen |-> NoResult]
  /\ attachments = [s \in Scen |-> << >>]
  /\ res = [s \in Scen |-> NoRes]
  /\ phase = [s \in Scen |-> IF s = 1 THEN "direct" ELSE "pending"]
  /\ hist = [s \in Scen |-> NewHist]
  /\ hookStatus = [s \in Scen |-> "none"]
  /\ envLast = EmptyMap
  /\ insVarMenuLink = [l \in Lanes |-> Undefined]
  /\ menuRead = [s \in Scen |-> NoRead]
  /\ rest = [s \in Scen |-> NewRESTUtils]
  /\ restRes = [s \in Scen |-> NoRestRes]
  /\ restCall = [l \in Lanes |-> NoRestCall]
  /\ wobj = [s \in Scen |-> NewWorld]
  /\ heap = 0
  /\ stepCall = [l \in Lanes |-> NoStep]

DirectLaunch(l) ==
  /\ pc[l] = "bm_idle"
  /\ Len(res[cur[l]].browsers) < MaxRes
  /\ \E libOk \in BOOLEAN :
       LET s == cur[l]
           c == launchBrowser(bm[s], res[s], cfgBrowser, libOk)
       IN  /\ bm' = [bm EXCEPT ![s] = c.bm]
           /\ res' = [res EXCEPT ![s] = c.res]
           /\ lastCall' = [lastCall EXCEPT ![l] = Called("launchBrowser", c.out, s)]
           /\ IF c.out = "ok"
                THEN CallSetEnv(l, VersionKey, BrowserVersion(cfgBrowser),
                                "bm_idle")
                ELSE UNCHANGED << envReq, ret, pc >>
  /\ UNCHANGED << cfgBrowser, now, envFile, nextPickle, cur, closeIdx, envBuf, orphans,
                  wpage, testData, result, attachments, phase, hist >>
  /\ UNCHANGED extVars

DirectCreateContext(l) ==
  /\ pc[l] = "bm_idle"
  /\ Len(res[cur[l]].contexts) < MaxRes
  /\ \E libOk \in BOOLEAN :
       LET s == cur[l]
           c == createContext(bm[s], res[s], libOk)
       IN  /\ bm' = [bm EXCEPT ![s] = c.bm]
           /\ res' = [res EXCEPT ![s] = c.res]
           /\ lastCall' = [lastCall EXCEPT ![l] = Called("createContext", c.out, s)]
  /\ UNCHANGED << cfgBrowser, now, envFile, nextPickle, pc, cur, ret, closeIdx, envBuf,
                  envReq, orphans, wpage, testData, result, attachments, phase, hist >>
  /\ UNCHANGED extVars

DirectCreatePage(l) ==
  /\ pc[l] = "bm_idle"
  /\ Len(res[cur[l]].pages) < MaxRes
  /\ \E libOk \in BOOLEAN :
       LET s == cur[l]
           c == createPage(bm[s], res[s], libOk)
       IN  /\ bm' = [bm EXCEPT ![s] = c.bm]
           /\ res' = [res EXCEPT ![s] = c.res]
           /\ lastCall' = [lastCall EXCEPT ![l] = Called("createPage", c.out, s)]
  /\ UNCHANGED << cfgBrowser, now, envFile, nextPickle, pc, cur, ret, closeIdx, envBuf,
                  envReq, orphans, wpage, testData, result, attachments, phase, hist >>
  /\ UNCHANGED extVars

DirectGetPage(l) ==
  /\ pc[l] = "bm_idle"
  /\ lastCall' = [lastCall EXCEPT ![l] = Called("getPage", getPage(bm[cur[l]]).out, cur[l])]
  /\ UNCHANGED << cfgBrowser, now, envFile, nextPickle, pc, cur, ret, closeIdx, envBuf,
                  envReq, orphans, worldVars, res >>
  /\ UNCHANGED extVars

DirectGetContext(l) ==
  /\ pc[l] = "bm_idle"
  /\ lastCall' = [lastCall EXCEPT ![l] =
                    Called("getContext", getContext(bm[cur[l]]).out, cur[l])]
  /\ UNCHANGED << cfgBrowser, now, envFile, nextPickle, pc, cur, ret, closeIdx, envBuf,
                  envReq, orphans, worldVars, res >>
  /\ UNCHANGED extVars

DirectClose(l) ==
  /\ pc[l] = "bm_idle"
  /\ CallClose(l, "bm_idle")
  /\ UNCHANGED << cfgBrowser, now, envFile, nextPickle, cur, envBuf, envReq, orphans,
                  worldVars, res >>
  /\ UNCHANGED extVars

NextBM ==
  \E l \in Lanes :
    \/ DirectLaunch(l) \/ DirectCreateContext(l) \/ DirectCreatePage(l)
    \/ DirectGetPage(l) \/ DirectGetContext(l) \/ DirectClose(l)
    \/ EnvRead(l) \/ EnvWrite(l) \/ CloseStep(l)

SpecBM == InitBM /\ [][NextBM]_vars

\* ------------------------------------------ setEnvValue when the file fails
\* setEnvValue: fs.readFileSync or fs.writeFileSync throws, the catch logs the
\* error and the call returns.  readFileSync leaves the file alone.
\* writeFileSync opens the file for writing, which empties it, and then writes:
\* it throws at the open with the file as it was, or later with the file holding
\* fewer lines than it was to write.
EnvFails(l) ==
  /\ \/ pc[l] = "env_read" /\ UNCHANGED envFile
     \/ /\ pc[l] = "env_write"
        /\ LET lines == SetEnvLines(envBuf[l], envReq[l].key, envReq[l].val)
           IN  \/ UNCHANGED envFile
               \/ \E k \in 0..(Len(lines) - 1) : envFile' = SubSeq(lines, 1, k)
  /\ pc' = [pc EXCEPT ![l] = ret[l]]
  /\ envBuf' = [envBuf EXCEPT ![l] = << >>]
  /\ envReq' = [envReq EXCEPT ![l] = NoReq]
  /\ ret' = [ret EXCEPT ![l] = "none"]
  /\ UNCHANGED << cfgBrowser, now, nextPickle, cur, closeIdx, lastCall, orphans,
                  worldVars, res >>
  /\ UNCHANGED extVars

\* The manager's caller of SpecBM, on a file system that may fail.
NextBMFails ==
  \/ NextBM
  \/ \E l \in Lanes : EnvFails(l)

SpecBMFails == InitBM /\ [][NextBMFails]_vars

\* ------------------------------------------------- a RESTUtils on its own
\* The RESTUtils of one World (World 1), whose methods a caller (lane 1) invokes
\* in any order, each call awaited before the next, and the OAuth step of
\* PaypalAPI_Steps.ts run on that World.
InitREST ==
  /\ cfgBrowser = "chromium"
  /\ now = 0
  /\ envFile = << [key |-> "BROWSER", val |-> cfgBrowser] >>
  /\ nextPickle = NScen + 1
  /\ pc = [l \in Lanes |-> IF l = 1 THEN "rest_idle" ELSE "off"]
  /\ cur = [l \in Lanes |-> IF l = 1 THEN 1 ELSE Null]
  /\ ret = [l \in Lanes |-> "none"]
  /\ closeIdx = [l \in Lanes |-> 0]
  /\ envBuf = [l \in Lanes |-> << >>]
  /\ envReq = [l \in Lanes |-> NoReq]
  /\ lastCall = [l \in Lanes |-> NoCall]
  /\ orphans = [l \in Lanes |-> 0]
  /\ bm = [s \in Scen |-> NewManager]
  /\ wpage = [s \in Scen |-> Null]
  /\ testData = [s \in Scen |-> EmptyMap]
  /\ result = [s \in Scen |-> NoResult]
  /\ attachments = [s \in Scen |-> << >>]
  /\ res = [s \in Scen |-> NoRes]
  /\ phase = [s \in Scen |-> IF s = 1 THEN "direct" ELSE "pending"]
  /\ hist = [s \in Scen |-> NewHist]
  /\ hookStatus = [s \in Scen |-> "none"]
  /\ envLast = EmptyMap
  /\ insVarMenuLink = [l \in Lanes |-> Undefined]
  /\ menuRead = [s \in Scen |-> NoRead]
  /\ rest = [s \in Scen |-> NewRESTUtils]
  /\ restRes = [s \in Scen |-> NoRestRes]
  /\ restCall = [l \in Lanes |-> NoRestCall]
  /\ wobj = [s \in Scen |-> NewWorld]
  /\ heap = 0
  /\ stepCall = [l \in Lanes |-> NoStep]

\* what a RESTUtils call leaves behind: the fields, the contexts, the call record
RestCalled(l, op, c) ==
  /\ rest' = [rest EXCEPT ![cur[l]] = c.rest]
  /\ restRes' = [restRes EXCEPT ![cur[l]] = c.res]
  /\ restCall' = [restCall EXCEPT ![l] = [op |-> op, out |-> c.out, val |-> c.val]]

RestUnchanged ==
  UNCHANGED << cfgBrowser, now, envFile, nextPickle, laneVars, bm, wpage, result,
               attachments, res, phase, hist, hookStatus, envLast, insVarMenuLink,
               menuRead, objVars >>

\* what a step of PaypalAPI_Steps.ts leaves alone besides the RESTUtils, testData
\* and the record of the step
RestUnchanged2 ==
  UNCHANGED << cfgBrowser, now, envFile, nextPickle, laneVars, bm, wpage, result,
               attachments, res, phase, hist, hookStatus, envLast, insVarMenuLink,
               menuRead >>

RestSetup(l) ==
  /\ pc[l] = "rest_idle"
  /\ Len(restRes[cur[l]].contexts) < MaxRes
  /\ \E base \in {"oauth", "tran"}, libOk \in BOOLEAN :
       RestCalled(l, "setupRequest", setupRequest(rest[cur[l]], restRes[cur[l]], base, libOk))
  /\ UNCHANGED testData
  /\ RestUnchanged

RestSetResource(l) ==
  /\ pc[l] = "rest_idle"
  /\ \E base \in {"oauth", "tran"}, path \in ResourcePaths :
       /\ rest' = [rest EXCEPT ![cur[l]] = setupResourceURL(@, base, path)]
       /\ restCall' = [restCall EXCEPT ![l] =
                         [op |-> "setupResourceURL", out |-> "ok", val |-> Null]]
  /\ UNCHANGED << restRes, testData >>
  /\ RestUnchanged

RestSend(l) ==
  /\ pc[l] = "rest_idle"
  /\ \E method \in Methods \cup {"OAuth"}, lib \in Statuses \cup {Rejected} :
       RestCalled(l, method, send(rest[cur[l]], restRes[cur[l]], method, lib))
  /\ UNCHANGED testData
  /\ RestUnchanged

RestAccess(l) ==
  /\ pc[l] = "rest_idle"
  /\ \E op \in Accessors :
       LET c == accessor(rest[cur[l]], restRes[cur[l]], op)
       IN  restCall' = [restCall EXCEPT ![l] = [op |-> op, out |-> c.out, val |-> c.val]]
  /\ UNCHANGED << rest, restRes, testData >>
  /\ RestUnchanged

RestDispose(l) ==
  /\ pc[l] = "rest_idle"
  /\ restRes' = [restRes EXCEPT ![cur[l]] = disposeAPIContext(rest[cur[l]], @)]
  /\ restCall' = [restCall EXCEPT ![l] =
                    [op |-> "disposeAPIContext", out |-> "ok", val |-> Null]]
  /\ UNCHANGED << rest, testData >>
  /\ RestUnchanged

\* step 'I generate OAuth token with resource {string}':
\* setupOAuthResourceURL(resource), setupOAuthRequest(), getOAuthToken(),
\* expect(response.status()).to.equal(200), response.json(),
\* testData.set('OAuthToken', responseBody.access_token)
StepOAuth(l) ==
  /\ pc[l] = "rest_idle"
  /\ Len(restRes[cur[l]].contexts) < MaxRes
  /\ \E libOk \in BOOLEAN, lib \in Statuses \cup {Rejected} :
       LET s == cur[l]
           c1 == setupRequest(setupResourceURL(rest[s], "oauth", "/v1/oauth2/token"),
                              restRes[s], "oauth", libOk)
           c2 == send(c1.rest, c1.res, "OAuth", lib)
       IN  IF c1.out # "ok"
             THEN RestCalled(l, "setupRequest", c1) /\ UNCHANGED testData
             ELSE /\ RestCalled(l, "OAuth", c2)
                  /\ testData' =
                       IF c2.out = "ok" /\ c2.val.status = 200
                                        /\ LibJson(c2.res, c2.val).out = "ok"
                         THEN [testData EXCEPT ![s] =
                                 MapSet(@, "OAuthToken",
                                        AccessToken(LibJson(c2.res, c2.val).val))]
                         ELSE testData
  /\ RestUnchanged

NextREST ==
  \E l \in Lanes :
    \/ RestSetup(l) \/ RestSend(l) \/ RestAccess(l) \/ RestDispose(l) \/ StepOAuth(l)

SpecREST == InitREST /\ [][NextREST]_vars

\* ------------------------------------ a RESTUtils while it is configured
\* The RESTUtils of World 1 again: the caller records resource URLs, opens
\* request contexts and sends, in any order.
NextConf ==
  \E l \in Lanes :
    \/ RestSetResource(l) \/ RestSetup(l) \/ RestSend(l)

SpecConf == InitREST /\ [][NextConf]_vars

\* ------------------------------------------- the request payload steps
\* World 1, run by lane 1: objects are loaded from the fixture file; then the table
\* step, with a table of up to MaxRows rows, follows the step that loaded the
\* request, as in the feature file, or is run with no request loaded.
StepRan(l, op, out, given) ==
  stepCall' = [stepCall EXCEPT ![l] = [op |-> op, out |-> out, given |-> given]]

\* step 'I get the {string} content from {string} file for the scenario {string}'
StepGetContent(l) ==
  /\ pc[l] = "rest_idle"
  /\ \E contentType \in {"request", "response", "reply"}, fileOk \in BOOLEAN,
        scenarioName \in DOMAIN Fixtures \cup {"Scenario9"} :
       LET out == IF contentType \notin {"request", "response"} THEN "TypeNameError"
                  ELSE IF ~fileOk THEN "FileError"
                  ELSE IF scenarioName \notin DOMAIN Fixtures THEN "ScenarioError"
                  ELSE "ok"
       IN  /\ testData' = [testData EXCEPT ![cur[l]] =
                             IF out = "ok"
                               THEN MapSet(@, contentType \o "Object", Fixtures[scenarioName])
                               ELSE @]
           /\ StepRan(l, "getContent", out, [name |-> scenarioName, type |-> contentType])
  /\ UNCHANGED << restVars, wobj, heap >>
  /\ RestUnchanged2

\* step 'I modify the request payload with below values for respective json paths:'
StepModifyPayload(l) ==
  /\ pc[l] = "rest_idle"
  /\ \E n \in 0..MaxRows :
       \E rows \in [1..n -> [jsonPath : TablePaths, value : TableValues]],
          rnd \in [1..n -> {RandomMin, RandomMax}] :
         LET s == cur[l]
             held == "requestObject" \in DOMAIN testData[s]
         IN  /\ \A i \in 1..n :
                  rnd[i] = RandomMax => \E j \in DOMAIN rows[i].value :
                                          rows[i].value[j] = "<random>"
             /\ testData' = [testData EXCEPT ![s] =
                               IF held
                                 THEN MapSet(@, "requestObject",
                                             modifyPayload(@["requestObject"], rows, rnd))
                                 ELSE @]
             /\ StepRan(l, "modifyPayload", IF held THEN "ok" ELSE "NoRequestError",
                        [rows |-> rows, rnd |-> rnd])
  /\ UNCHANGED << restVars, wobj, heap >>
  /\ RestUnchanged2

NextPayload ==
  \E l \in Lanes :
    \/ stepCall[l].op # "modifyPayload" /\ StepGetContent(l)
    \/ /\ cur[l] # Null
       /\ stepCall[l].op # "modifyPayload"
       /\ \/ "requestObject" \notin DOMAIN testData[cur[l]]
          \/ /\ stepCall[l].op = "getContent" /\ stepCall[l].out = "ok"
             /\ stepCall[l].given.type = "request"
       /\ StepModifyPayload(l)

SpecPayload == InitREST /\ [][NextPayload]_vars

\* ------------------------------------------------ the API call steps
\* World 1, run by lane 1: the steps of PaypalAPI_Steps.ts that form clients,
\* call the API and keep values of the responses, in any order.

\* step 'I make a {string} call with OAuth token and capture the response';
\* sent tells whether the step came to call a send method of RESTUtils
StepMakeCall(l) ==
  /\ pc[l] = "rest_idle"
  /\ \E method \in CallMethods, lib \in Statuses \cup {Rejected} :
       LET s == cur[l]
           td == testData[s]
           withBody == method \in {"POST", "PUT", "PATCH"}
           m1 == IF withBody THEN setAPIBodyPayload(rest[s], td["requestObject"])
                             ELSE rest[s]
           m2 == setAPICustomHeaders(m1, SomeHeaders)
           c == send(m2, restRes[s], method, lib)
           body == LibJson(c.res, c.val)
           Ran(out, sent) == StepRan(l, "makeCall", out, [method |-> method, sent |-> sent])
       IN  IF withBody /\ NoValue(td, "requestObject")
             THEN Ran("NoRequestError", FALSE) /\ UNCHANGED << rest, restRes, testData >>
           ELSE IF NoValue(td, "OAuthToken")
             THEN /\ Ran("NoTokenError", FALSE)
                  /\ rest' = [rest EXCEPT ![s] = m1]
                  /\ UNCHANGED << restRes, testData >>
           ELSE IF method \notin Methods
             THEN /\ Ran("UnsupportedMethodError", FALSE)
                  /\ rest' = [rest EXCEPT ![s] = m2]
                  /\ UNCHANGED << restRes, testData >>
           ELSE /\ rest' = [rest EXCEPT ![s] = c.rest]
                /\ restRes' = [restRes EXCEPT ![s] = c.res]
                /\ IF c.out # "ok"
                     THEN Ran(c.out, TRUE) /\ UNCHANGED testData
                   ELSE IF method = "DELETE"
                     THEN /\ Ran("ok", TRUE)
                          /\ testData' = [testData EXCEPT ![s] =
                                            MapSet(@, "actualResponseObject", JNull)]
                   ELSE IF body.out # "ok"
                     THEN Ran(body.out, TRUE) /\ UNCHANGED testData
                     ELSE /\ Ran("ok", TRUE)
                          /\ testData' = [testData EXCEPT ![s] =
                                            MapSet(@, "actualResponseObject",
                                                   [t |-> "object",
                                                    s |-> BodyText(c.val.status)])]
  /\ UNCHANGED << restCall, wobj, heap >>
  /\ RestUnchanged2

\* step 'I extract value from response using json path {string} and store as
\* {string}'
StepExtract(l) ==
  /\ pc[l] = "rest_idle"
  /\ \E found \in ExtractedValues :
       LET s == cur[l]
       IN  IF NoValue(testData[s], "actualResponseObject")
             THEN StepRan(l, "extract", "NoResponseError", found) /\ UNCHANGED testData
             ELSE /\ StepRan(l, "extract", "ok", found)
                  /\ testData' = [testData EXCEPT ![s] = MapSet(@, "webhookId", found)]
  /\ UNCHANGED << restVars, wobj, heap >>
  /\ RestUnchanged2

\* step 'I form a client by manipulating the resource url with {string}'
StepManipulateUrl(l) ==
  /\ pc[l] = "rest_idle"
  /\ Len(restRes[cur[l]].contexts) < MaxRes
  /\ \E tpl \in Templates, libOk \in BOOLEAN :
       LET s == cur[l]
           u == manipulatedUrl(testData[s], tpl)
           c == setupRequest(setupResourceURL(rest[s], "tran", u.url), restRes[s],
                             "tran", libOk)
       IN  IF u.out # "ok"
             THEN StepRan(l, "manipulateUrl", u.out, tpl) /\ UNCHANGED << rest, restRes >>
             ELSE /\ StepRan(l, "manipulateUrl", c.out, tpl)
                  /\ rest' = [rest EXCEPT ![s] = c.rest]
                  /\ restRes' = [restRes EXCEPT ![s] = c.res]
  /\ UNCHANGED << restCall, testData, wobj, heap >>
  /\ RestUnchanged2

\* The scenario gets a token, forms clients from what earlier responses held and
\* calls the API.
NextUrl ==
  \E l \in Lanes :
    \/ StepOAuth(l) \/ StepMakeCall(l) \/ StepExtract(l) \/ StepManipulateUrl(l)

SpecUrl == InitREST /\ [][NextUrl]_vars

\* The scenario gets a token, loads objects from the fixture file until it holds
\* a request object, and calls the API.
NextCall ==
  \E l \in Lanes :
    \/ StepOAuth(l) \/ StepMakeCall(l)
    \/ /\ cur[l] # Null
       /\ "requestObject" \notin DOMAIN testData[cur[l]]
       /\ StepGetContent(l)

SpecCall == InitREST /\ [][NextCall]_vars

\* ---------------------------------------------- Worlds and page objects
\* Two Worlds, one per lane, each with a manager that has a context (its Before
\* hook is at STEP 3) or has nothing; the lane creates the page and reads the
\* three getters in any order.
AtStep3 == [bm |-> [browser |-> 1, context |-> 1, page |-> Null],
            res |-> [browsers |-> << [st |-> "open"] >>,
                     contexts |-> << [st |-> "open", br |-> 1] >>, pages |-> << >>]]

InitWorld ==
  /\ cfgBrowser = "chromium"
  /\ now = 0
  /\ envFile = << [key |-> "BROWSER", val |-> cfgBrowser] >>
  /\ nextPickle = NScen + 1
  /\ pc = [l \in Lanes |-> "world_idle"]
  /\ cur = [l \in Lanes |-> l]
  /\ ret = [l \in Lanes |-> "none"]
  /\ closeIdx = [l \in Lanes |-> 0]
  /\ envBuf = [l \in Lanes |-> << >>]
  /\ envReq = [l \in Lanes |-> NoReq]
  /\ lastCall = [l \in Lanes |-> NoCall]
  /\ orphans = [l \in Lanes |-> 0]
  /\ \E started \in SUBSET Lanes :
       /\ bm = [s \in Scen |-> IF s \in started THEN AtStep3.bm ELSE NewManager]
       /\ res = [s \in Scen |-> IF s \in started THEN AtStep3.res ELSE NoRes]
  /\ wpage = [s \in Scen |-> Null]
  /\ testData = [s \in Scen |-> EmptyMap]
  /\ result = [s \in Scen |-> NoResult]
  /\ attachments = [s \in Scen |-> << >>]
  /\ phase = [s \in Scen |-> IF s \in Lanes THEN "direct" ELSE "pending"]
  /\ hist = [s \in Scen |-> NewHist]
  /\ hookStatus = [s \in Scen |-> "none"]
  /\ envLast = EmptyMap
  /\ insVarMenuLink = [l \in Lanes |-> Undefined]
  /\ menuRead = [s \in Scen |-> NoRead]
  /\ rest = [s \in Scen |-> NewRESTUtils]
  /\ restRes = [s \in Scen |-> NoRestRes]
  /\ restCall = [l \in Lanes |-> NoRestCall]
  /\ wobj = [s \in Scen |-> NewWorld]
  /\ heap = 0
  /\ stepCall = [l \in Lanes |-> NoStep]

WorldUnchanged ==
  UNCHANGED << cfgBrowser, now, envFile, nextPickle, laneVars, testData, result,
               attachments, phase, hist, hookStatus, envLast, insVarMenuLink,
               menuRead, restVars >>

\* the record of a getter or tab step kept for the lane: the field it went
\* through, its outcome, the instance returned, and the World before the call
Stepped(l, op, kind, out, val) ==
  [op |-> op, kind |-> kind, out |-> out, val |-> val,
   was |-> wobj[cur[l]][kind], hadPage |-> bm[cur[l]].page # Null]

\* Before, STEP 3: this.page = await this.browserManager.createPage()
WorldCreatePage(l) ==
  /\ pc[l] = "world_idle"
  /\ Len(res[cur[l]].pages) < MaxRes
  /\ \E libOk \in BOOLEAN :
       LET s == cur[l]
           c == createPage(bm[s], res[s], libOk)
       IN  /\ bm' = [bm EXCEPT ![s] = c.bm]
           /\ res' = [res EXCEPT ![s] = c.res]
           /\ wpage' = [wpage EXCEPT ![s] = IF c.out = "ok" THEN c.bm.page ELSE @]
           /\ stepCall' = [stepCall EXCEPT ![l] =
                             Stepped(l, "createPage", "loginPage", c.out, 0)]
  /\ UNCHANGED << wobj, heap >>
  /\ WorldUnchanged

\* this.loginPage, this.homePage, this.restUtils read by a step
WorldGet(l) ==
  /\ pc[l] = "world_idle"
  /\ \E kind \in PageObjects \cup {"restUtils"} :
       LET s == cur[l]
           c == worldGet(wobj[s], bm[s], kind, heap)
       IN  /\ wobj' = [wobj EXCEPT ![s] = c.world]
           /\ heap' = heap + c.made
           /\ stepCall' = [stepCall EXCEPT ![l] = Stepped(l, "get", kind, c.out, c.val)]
  /\ UNCHANGED << bm, res, wpage >>
  /\ WorldUnchanged

\* a step that reads this.loginPage and calls a tab method on it
TabStep(l, op, c, g) ==
  /\ heap' = heap + g.made
  /\ IF g.out # "ok"
       THEN /\ wobj' = [wobj EXCEPT ![cur[l]] = g.world]
            /\ stepCall' = [stepCall EXCEPT ![l] = Stepped(l, op, "loginPage", g.out, 0)]
            /\ UNCHANGED res
       ELSE /\ wobj' = [wobj EXCEPT ![cur[l]] = [g.world EXCEPT !.loginPage = c.obj]]
            /\ res' = [res EXCEPT ![cur[l]] = c.res]
            /\ stepCall' = [stepCall EXCEPT ![l] =
                              Stepped(l, op, "loginPage", c.out, g.val)]
  /\ UNCHANGED << bm, wpage >>
  /\ WorldUnchanged

\* step 'I click the Discord icon and navigate to the new tab':
\* await this.loginPage.clickDiscordIcon()
StepClickNewTab(l) ==
  /\ pc[l] = "world_idle"
  /\ Len(res[cur[l]].pages) < MaxRes
  /\ \E libOk \in BOOLEAN :
       LET g == worldGet(wobj[cur[l]], bm[cur[l]], "loginPage", heap)
       IN  TabStep(l, "clickAndSwitchToNewTab",
                   clickAndSwitchToNewTab(g.world.loginPage, res[cur[l]], libOk), g)

\* step 'I close the new tab and switch back to the main tab':
\* await this.loginPage.closeChildTabAndSwitchBackToParentTab()
StepCloseChildTab(l) ==
  /\ pc[l] = "world_idle"
  /\ LET g == worldGet(wobj[cur[l]], bm[cur[l]], "loginPage", heap)
     IN  TabStep(l, "closeChildTabAndSwitchBackToParentTab",
                 closeChildTabAndSwitchBackToParentTab(g.world.loginPage, res[cur[l]]), g)

NextWorld ==
  \E l \in Lanes :
    \/ wpage[cur[l]] = Null /\ WorldCreatePage(l)
    \/ WorldGet(l)

SpecWorld == InitWorld /\ [][NextWorld]_vars

\* ------------------------------------------------ the tabs of one World
\* World 1 alone, run by lane 1: the page is created, the getters are read and
\* the two tab steps of GithubLogin_Steps.ts are run in any order.
InitTabs ==
  /\ InitWorld
  /\ bm[2] = NewManager

NextTabs ==
  \/ WorldCreatePage(1) \/ WorldGet(1) \/ StepClickNewTab(1) \/ StepCloseChildTab(1)

SpecTabs == InitTabs /\ [][NextTabs]_vars

\* ============================================================ claims
Field(kind) ==
  CASE kind = "page" -> "pages" [] kind = "context" -> "contexts" [] kind = "browser" -> "browsers"

\* the manager holds a handle of this kind and the object behind it is open
Live(s, kind) == bm[s][kind] # Null /\ res[s][Field(kind)][bm[s][kind]].st = "open"

Count(seq, x) == Cardinality({i \in DOMAIN seq : seq[i] = x})

IsApi(s) == "@api" \in PickleTags(s)

\* C1: for a scenario tagged @api the Before hook acquires nothing: its manager
\* holds no browser, context or page, launchBrowser is never invoked for it and no
\* RUN_BROWSER_VERSION write is made for it.
C1_ApiScenarioAcquiresNothing ==
  \A s \in Scen :
    IsApi(s) => /\ bm[s] = NewManager
                /\ res[s] = NoRes
                /\ hist[s].launch = 0
                /\ hist[s].version = 0

\* C2: when the After hook of a scenario is over, closeBrowser() has been invoked
\* and testData.clear() has been executed, whatever threw on the way.
C2_TeardownRunsAllSteps ==
  \A s \in Scen :
    phase[s] = "done" => hist[s].close >= 1 /\ hist[s].clear >= 1

\* C3: a web scenario that failed in a step, with its page bound, ends its After
\* hook with exactly one image/png attachment and exactly one closeBrowser() call.
C3_FailedScenarioOneImageOneClose ==
  \A s \in Scen :
    (phase[s] = "done" /\ result[s].status = "failed" /\ wpage[s] # Null)
      => /\ Count(attachments[s], "image/png") = 1
         /\ hist[s].close = 1

C4_Missing(c) ==
  \/ c.op = "createContext" /\ c.pre.browser = Null
  \/ c.op = "createPage" /\ c.pre.context = Null
  \/ c.op = "getPage" /\ c.pre.page = Null
  \/ c.op = "getContext" /\ c.pre.context = Null

\* C4: createContext() without a browser, createPage() without a context,
\* getPage() without a page and getContext() without a context throw the
\* precondition error, never a null dereference, and leave handles and resources
\* as they were.
C4_PreconditionErrors ==
  \A l \in Lanes :
    C4_Missing(lastCall[l])
      => /\ lastCall[l].out = "PreconditionError"
         /\ bm[cur[l]] = lastCall[l].pre
         /\ res[cur[l]] = lastCall[l].preRes

C4_Witness ==
  /\ lastCall[1].op = "createPage"
  /\ lastCall[1].pre.browser # Null
  /\ lastCall[1].pre.context = Null
  /\ lastCall[1].out = "PreconditionError"

\* C5: closeBrowser() never throws, whichever handles the manager holds, and a
\* call that follows a completed closeBrowser() changes no browser, context or page.
C5_CloseIdempotentNoThrow ==
  \A l \in Lanes :
    lastCall[l].op = "closeBrowser"
      => /\ lastCall[l].out \in {"running", "ok"}
         /\ lastCall[l].afterClose => res[cur[l]] = lastCall[l].preRes

C5_Witness ==
  /\ lastCall[1].op = "closeBrowser"
  /\ lastCall[1].out = "ok"
  /\ lastCall[1].afterClose
  /\ lastCall[1].pre.page # Null
  /\ lastCall[1].pre.context # Null
  /\ lastCall[1].pre.browser # Null

C6_Closes(s, kind) ==
  /\ Live(s, kind)
  /\ bm'[s] = bm[s]
  /\ bm[s][kind] \in DOMAIN res'[s][Field(kind)]
  /\ res'[s][Field(kind)][bm[s][kind]].st = "closed"

\* C6: in every step that closes the manager's browser, its context and its page
\* are absent or already closed; in every step that closes the manager's context,
\* its page is absent or already closed.
C6_ReleaseOrder ==
  [][\A s \in Scen :
       /\ C6_Closes(s, "browser") => ~Live(s, "context") /\ ~Live(s, "page")
       /\ C6_Closes(s, "context") => ~Live(s, "page")]_vars

C6_Witness ==
  /\ pc[1] = "closing"
  /\ closeIdx[1] = 3
  /\ bm[1].page # Null /\ ~Live(1, "page")
  /\ bm[1].context # Null /\ ~Live(1, "context")
  /\ Live(1, "browser")

\* C7: a held context handle implies a held live browser handle, and a held page
\* handle implies a held live context handle, in every state of a manager.
C7_HandleInvariant ==
  \A s \in Scen :
    /\ bm[s].context # Null => Live(s, "browser")
    /\ bm[s].page # Null => Live(s, "context")

C8_BeforeFailed(s) ==
  phase[s] = "done" /\ result[s].status = "failed" /\ wpage[s] = Null

\* C8: a scenario whose Before hook failed during acquisition ends its After hook
\* with closeBrowser() called once, every browser launched for it closed, and
\* launchBrowser() called once.
C8_PartialAcquisitionReleased ==
  \A s \in Scen :
    C8_BeforeFailed(s)
      => /\ hist[s].close = 1
         /\ OpenBrowsers(res[s]) = 0
         /\ hist[s].launch = 1

C8_Witness ==
  \E s \in Scen :
    /\ C8_BeforeFailed(s)
    /\ Len(res[s].browsers) = 1
    /\ bm[s].context = Null

C9_Seeded(s) == {"scenarioId", "uniqueEmail"} \subseteq DOMAIN testData[s]

\* C9: two scenarios whose testData hold the seeded keys at the same time hold
\* different values under 'scenarioId' and under 'uniqueEmail'.
C9_SeedsDiffer ==
  \A s1 \in Scen : \A s2 \in Scen :
    (s1 # s2 /\ C9_Seeded(s1) /\ C9_Seeded(s2))
      => /\ testData[s1]["scenarioId"] # testData[s2]["scenarioId"]
         /\ testData[s1]["uniqueEmail"] # testData[s2]["uniqueEmail"]

C9_Witness ==
  /\ C9_Seeded(1) /\ C9_Seeded(2)
  /\ testData[1]["uniqueEmail"] = "test_id1_0@example.com"
  /\ testData[2]["uniqueEmail"] = "test_id2_0@example.com"

C11_NoStateSharedBetweenScenarios ==
  \A s \in Scen : menuRead[s].by \in {Null, s}

\* the lane has entered the body of its BeforeAll hook
BeforeAllBegun(l) == pc[l] # "beforeAll"

\* the TEST_STARTED_TIME write of the lane's BeforeAll hook has returned
BeforeAllOver(l) == BeforeAllBegun(l) /\ envReq[l].key # "TEST_STARTED_TIME"

\* the lane has entered the body of its AfterAll hook
AfterAllBegun(l) == pc[l] = "finished" \/ envReq[l].key = "TEST_COMPLETED_TIME"

\* C12: over a whole run the BeforeAll body is executed once and is over before
\* any Before hook begins, and the AfterAll body is executed once and begins only
\* when every scenario's After hook is over.
C12_GlobalHooksOnce ==
  /\ Cardinality({l \in Lanes : BeforeAllBegun(l)}) <= 1
  /\ (\E s \in Scen : phase[s] # "pending") => \A l \in Lanes : BeforeAllOver(l)
  /\ Cardinality({l \in Lanes : AfterAllBegun(l)}) <= 1
  /\ (\E l \in Lanes : AfterAllBegun(l)) => \A s \in Scen : phase[s] \in {"done", "gone"}

\* C13: within a lane the After hook of a scenario is over before the next Before
\* hook begins, so that a lane never holds open browsers of two scenarios at once:
\* while a browser of an earlier scenario of the lane is still open, the lane's
\* current scenario holds none.
C13_OneScenarioBrowserPerLane ==
  \A l \in Lanes :
    (cur[l] # Null /\ orphans[l] > 0) => OpenBrowsers(res[cur[l]]) = 0

\* C14: an error thrown inside the After hook is caught there, so the hook itself
\* is never recorded as failed, and the status reported for the scenario is the
\* status it had when the After hook began.
C14_TeardownErrorsCaught ==
  \A s \in Scen :
    phase[s] = "done" => /\ hookStatus[s] = "passed"
                         /\ Reported(s) = result[s].status

KeyLines(lines, key) == {i \in DOMAIN lines : lines[i].key = key}

\* the lines of the other keys, in their order
OtherLines(lines, key) == SelectSeq(lines, LAMBDA ln : ln # BlankLine /\ ln.key # key)

\* the position of the first line of key among the lines that are not blank
KeyPosition(lines, key) == FindIndex(NonBlank(lines), key)

C16_LastWriterWinsPerKey ==
  (\A l \in Lanes : pc[l] \notin {"env_read", "env_write"})
    => \A k \in DOMAIN envLast :
         \E i \in DOMAIN envFile : envFile[i] = [key |-> k, val |-> envLast[k]]

\* the lane's setEnvValue call writes the file and returns in this step
EnvWrites(l) == pc[l] = "env_write" /\ pc'[l] # "env_write"

\* C17 as stated, for the lane that writes: the store is written only in
\* GlobalSetup and GlobalTeardown, so no lane writes it while the scenario it is
\* running is in its setup, run or teardown phase.
C17_WritesOnlyInGlobalPhases ==
  [][\A l \in Lanes :
       EnvWrites(l)
         => cur[l] = Null \/ phase[cur[l]] \notin {"setup", "run", "teardown"}]_vars

\* C17 amended: every write to the store is the TEST_STARTED_TIME write of the
\* writing lane's BeforeAll hook, the TEST_COMPLETED_TIME write of its AfterAll
\* hook, both made while the lane has no scenario, or the RUN_BROWSER_VERSION
\* write of launchBrowser() made while the lane's scenario is in its setup phase.
C17_WritesByGlobalHooksAndLaunch ==
  [][\A l \in Lanes :
       EnvWrites(l)
         => \/ envReq[l].key \in {"TEST_STARTED_TIME", "TEST_COMPLETED_TIME"} /\ cur[l] = Null
            \/ /\ envReq[l].key = "RUN_BROWSER_VERSION"
               /\ cur[l] # Null
               /\ phase[cur[l]] = "setup"]_vars

C17_Witness ==
  \E l \in Lanes :
    /\ pc[l] = "before_context"
    /\ phase[cur[l]] = "setup"
    /\ hist[cur[l]].version = 1
    /\ \E i \in DOMAIN envFile : envFile[i].key = "RUN_BROWSER_VERSION"

\* what each accessor makes of a response
Derived(op, resp) ==
  CASE op = "getResponseStatusCode" -> resp.status
    [] op = "getResponseStatusLine" -> StatusText(resp.status)
    [] op = "getResponseBody" -> [code |-> resp.status]
    [] op = "getResponseAsString" -> BodyText(resp.status)

\* the last response a server delivered to the RESTUtils of the lane's World
Delivered(l) == restRes[cur[l]].delivered

\* the request context that made the response has not been disposed of
BodyKept(l) == restRes[cur[l]].contexts[Delivered(l).cx].st = "open"

\* C18 as stated: an accessor called before any response was stored fails with
\* the no-response error; called after, it returns the status code, status text,
\* parsed body or body text of the last response delivered.
C18_AccessorsReturnLastResponse ==
  \A l \in Lanes :
    restCall[l].op \in Accessors
      => IF Delivered(l) = NoResponse
           THEN restCall[l].out = "NoResponseError"
           ELSE /\ restCall[l].out = "ok"
                /\ restCall[l].val = Derived(restCall[l].op, Delivered(l))

\* C18 amended: an accessor called before any response was stored fails with the
\* no-response error; called after, it never does: getResponseStatusCode and
\* getResponseStatusLine return the status code and text of the last response
\* delivered, getResponseBody and getResponseAsString return its body parsed and
\* as text, or fail with the library's error when the body is empty (parsing
\* only) or the request context of the response has been disposed of.
C18_AccessorsGuarded ==
  \A l \in Lanes :
    restCall[l].op \in Accessors
      => IF Delivered(l) = NoResponse
           THEN restCall[l].out = "NoResponseError"
           ELSE LET op == restCall[l].op
                    fails == \/ op = "getResponseBody"
                                  /\ (~BodyKept(l) \/ Delivered(l).status = 204)
                             \/ op = "getResponseAsString" /\ ~BodyKept(l)
                IN  IF fails
                      THEN restCall[l].out = "LibError"
                      ELSE /\ restCall[l].out = "ok"
                           /\ restCall[l].val = Derived(op, Delivered(l))

C18_Witness ==
  /\ restCall[1].op = "getResponseStatusCode"
  /\ restCall[1].out = "ok"
  /\ restCall[1].val = 404
  /\ Delivered(1).cx = 2
  /\ restRes[1].contexts[1].st = "disposed"

\* a send of the lane's last RESTUtils call received a response
Answered(l) == restCall[l].out \notin {"TypeError", "LibError"}

\* C19: a transaction send that receives a response stores it; postTransaction,
\* getTransaction, putTransaction and patchTransaction return it whatever its
\* status, deleteTransaction returns it when the status is 2xx and throws the
\* transaction error otherwise.
C19_OnlyDeleteRaises ==
  \A l \in Lanes :
    (restCall[l].op \in Methods /\ Answered(l))
      => /\ rest[cur[l]].response = Delivered(l)
         /\ IF restCall[l].op = "DELETE" /\ ~Ok(Delivered(l).status)
              THEN restCall[l].out = "TransactionError"
              ELSE restCall[l].out = "ok" /\ restCall[l].val = Delivered(l)

C19_Witness ==
  /\ restCall[1].op = "POST"
  /\ restCall[1].out = "ok"
  /\ restCall[1].val.status = 404
  /\ rest[1].response.status = 404

\* C20: getOAuthToken() throws the auth error when the response received is not
\* 2xx and returns the response otherwise, and testData holds 'OAuthToken' only as
\* the token of a response of status 200.
C20_TokenOnlyAfterSuccess ==
  /\ \A l \in Lanes :
       (restCall[l].op = "OAuth" /\ Answered(l))
         => IF Ok(Delivered(l).status)
              THEN restCall[l].out = "ok" /\ restCall[l].val = Delivered(l)
              ELSE restCall[l].out = "AuthError"
  /\ \A s \in Scen :
       "OAuthToken" \in DOMAIN testData[s]
         => testData[s]["OAuthToken"] = AccessToken([code |-> 200])

C20_Witness ==
  /\ restCall[1].op = "OAuth"
  /\ restCall[1].out = "ok"
  /\ restCall[1].val.status = 200
  /\ "OAuthToken" \in DOMAIN testData[1]

\* the request contexts the RESTUtils of World s has opened
Opened(s) == restRes[s].contexts

\* C21: a RESTUtils has one current request context, the one it opened last: a
\* setup call that succeeds makes the context it opened the current one, every
\* send that is answered was made on the context opened last, and a call of
\* setupOAuthResourceURL / setupTranResourceURL opens nothing, receives nothing
\* and leaves the current context, the staged payload, the staged headers and
\* the stored response as they were.
C21_OneCurrentContext ==
  /\ [](\A s \in Scen :
          /\ rest[s].apiContext # Null => rest[s].apiContext = Len(Opened(s))
          /\ rest[s].response # NoResponse => rest[s].response = restRes[s].delivered)
  /\ [](\A l \in Lanes :
          (restCall[l].op \in Methods \cup {"OAuth"} /\ Answered(l))
            => Delivered(l).cx = Len(Opened(cur[l])))
  /\ [][\A l \in Lanes :
          restCall'[l].op = "setupResourceURL"
            => /\ restRes' = restRes
               /\ rest'[cur[l]].apiContext = rest[cur[l]].apiContext
               /\ rest'[cur[l]].apiBodyPayload = rest[cur[l]].apiBodyPayload
               /\ rest'[cur[l]].apiCustomHeaders = rest[cur[l]].apiCustomHeaders
               /\ rest'[cur[l]].response = rest[cur[l]].response]_vars

C21_Witness ==
  /\ Len(Opened(1)) = 2
  /\ Opened(1)[1].url = UndefinedText
  /\ Opened(1)[2].url = "/v1/notifications/webhooks"
  /\ restCall[1].op = "GET"
  /\ restCall[1].out = "ok"
  /\ Delivered(1).cx = 2

\* C22: when the After hook of a scenario is over, every request context its
\* RESTUtils opened has been disposed of.
C22_ContextsDisposedByTeardown ==
  \A s \in Scen :
    phase[s] = "done" => \A c \in DOMAIN Opened(s) : Opened(s)[c].st = "disposed"

\* C23: launchBrowser() called on a manager that holds no browser fails when
\* config.browser is not chromium, firefox or webkit; whenever it fails, for that
\* reason or because the process did not start, it fails with the launch error,
\* the manager holds no browser handle and no RUN_BROWSER_VERSION was written.
C23_LaunchFailsWithLaunchError ==
  \A l \in Lanes :
    (lastCall[l].op = "launchBrowser" /\ lastCall[l].pre.browser = Null)
      => /\ cfgBrowser \notin SupportedKinds => lastCall[l].out # "ok"
         /\ lastCall[l].out # "ok"
              => /\ lastCall[l].out = "LaunchError"
                 /\ bm[cur[l]].browser = Null
                 /\ hist[cur[l]].version = 0
                 /\ \A i \in DOMAIN envFile : envFile[i].key # VersionKey

\* the page the World's login page object works on
TabOf(s) == wobj[s].loginPage.page

\* C24: after a clickAndSwitchToNewTab() that succeeded, BrowserManager.getPage()
\* and the World's page are the new tab; after a
\* closeChildTabAndSwitchBackToParentTab() that succeeded they are the parent tab
\* the page object went back to, and that page is open.
C24_ActivePageFollowsTabs ==
  \A l \in Lanes :
    LET s == cur[l] IN
    /\ (stepCall[l].op = "clickAndSwitchToNewTab" /\ stepCall[l].out = "ok")
         => /\ TabOf(s) = Len(res[s].pages)
            /\ getPage(bm[s]).val = TabOf(s)
            /\ wpage[s] = TabOf(s)
    /\ (stepCall[l].op = "closeChildTabAndSwitchBackToParentTab" /\ stepCall[l].out = "ok")
         => /\ getPage(bm[s]).val = TabOf(s)
            /\ wpage[s] = TabOf(s)
            /\ res[s].pages[wpage[s]].st = "open"


\* ------------------------------------------------------------------ C25
\* re-extracting at a path: the member there, nothing when the object has none
Extracted(obj, path) == IF path \in DOMAIN obj THEN obj[path] ELSE JUndefined

\* the request object of lane l's scenario
RequestObject(l) == testData[cur[l]]["requestObject"]

\* lane l has just run the modification step on a loaded request object
Modified(l) ==
  /\ stepCall'[l] # stepCall[l]
  /\ stepCall'[l].op = "modifyPayload"
  /\ stepCall'[l].out = "ok"

\* row i of the table is the last one for its path
LastForPath(rows, i) == \A j \in DOMAIN rows : j > i => rows[j].jsonPath # rows[i].jsonPath

\* what a cell stands for once <random> is n: true, false, null in any case and
\* numerals (the empty cell is 0) are typed values, any other text is itself
Meant(v, n) ==
  CASE v = << >> -> [t |-> "number", s |-> "0"]
    [] v = << "7" >> -> [t |-> "number", s |-> "7"]
    [] v = << "TRUE" >> -> [t |-> "boolean", s |-> "true"]
    [] v = << "null" >> -> [t |-> "null", s |-> "null"]
    [] v = << "<random>" >> -> [t |-> "number", s |-> ToString(n)]
    [] v = << "ab", "<random>" >> -> [t |-> "string", s |-> "ab" \o ToString(n)]
    [] OTHER -> [t |-> "string", s |-> Text(v)]

C26_DataErrorsFailFast ==
  [][\A l \in Lanes :
       /\ StepManipulateUrl(l) /\ stepCall'[l].given.key # "" =>
            LET s == cur[l]
                tpl == stepCall'[l].given
            IN  IF tpl.key \notin DOMAIN testData[s]
                  THEN /\ stepCall'[l].out = "NoValueError:" \o tpl.key
                       /\ rest'[s] = rest[s]
                       /\ restRes'[s] = restRes[s]
                  ELSE /\ stepCall'[l].out \in {"ok", "LibError"}
                       /\ stepCall'[l].out = "ok" =>
                            /\ rest'[s].tranResourceURL = tpl.prefix \o testData[s][tpl.key].s
                            /\ restRes'[s].contexts[rest'[s].apiContext].url
                                 = rest'[s].tranResourceURL
       /\ StepGetContent(l) /\ stepCall'[l].given.name \notin DOMAIN Fixtures
                            /\ stepCall'[l].given.type \in {"request", "response"} =>
            /\ stepCall'[l].out \in {"FileError", "ScenarioError"}
            /\ testData' = testData]_vars

\* C26, the fixture half alone: a load that names a scenario the fixture file
\* lacks raises an error and stores nothing
C26_FixtureMissStoresNothing ==
  [][\A l \in Lanes :
       StepGetContent(l) /\ stepCall'[l].given.name \notin DOMAIN Fixtures =>
         stepCall'[l].out # "ok" /\ testData' = testData]_vars


\* ------------------------------------------------------------------ C27
\* C27: launchBrowser() is not idempotent: a launch that succeeds makes the
\* browser it started the manager's handle, whatever the handle was, and leaves
\* every browser started before as it was; a browser that is not the manager's
\* handle is closed by no call, so the first of two launched browsers stays open;
\* closeBrowser() that returns has closed the browser of the handle
C27_SecondLaunchOrphansFirst ==
  [][\A l \in Lanes :
       cur[l] # Null =>
         LET s == cur[l] IN
         /\ DirectLaunch(l) /\ lastCall'[l].out = "ok" =>
              /\ bm'[s].browser = Len(res[s].browsers) + 1
              /\ Len(res'[s].browsers) = Len(res[s].browsers) + 1
              /\ res'[s].browsers[bm'[s].browser].st = "open"
         /\ \A b \in DOMAIN res[s].browsers :
              /\ res[s].browsers[b].st = "open"
              /\ b # bm[s].browser \/ bm'[s].browser # bm[s].browser
              => res'[s].browsers[b].st = "open"
         /\ /\ lastCall[l].op = "closeBrowser" /\ lastCall[l].out = "running"
            /\ lastCall'[l].out = "ok" /\ bm[s].browser # Null
            => res'[s].browsers[bm[s].browser].st = "closed"]_vars

\* two launches, then closeBrowser(): the second browser is closed, the first runs
C27_Witness ==
  \E l \in Lanes :
    /\ cur[l] # Null
    /\ lastCall[l].op = "closeBrowser" /\ lastCall[l].out = "ok"
    /\ Len(res[cur[l]].browsers) = 2
    /\ bm[cur[l]].browser = 2
    /\ res[cur[l]].browsers[1].st = "open"
    /\ res[cur[l]].browsers[2].st = "closed"


\* ------------------------------------------------------------------ C28
\* the fields of the Worlds that hold an instance
Held == {f \in Scen \X (PageObjects \cup {"restUtils"}) : wobj[f[1]][f[2]] # NoObj}

\* C28: the getters loginPage, homePage and restUtils of a World build an instance
\* at the first access that succeeds and return that instance at every later
\* access; no instance is held by two Worlds or two fields; an access to
\* loginPage or homePage while the manager has no page fails and caches nothing,
\* and an access made once the page is there succeeds
C28_GettersMemoizedPerWorld ==
  /\ [](\A f, g \in Held : f # g => wobj[f[1]][f[2]].id # wobj[g[1]][g[2]].id)
  /\ [][\A l \in Lanes :
          WorldGet(l) =>
            LET s == cur[l]
                kind == stepCall'[l].kind
                got == stepCall'[l]
            IN  IF wobj[s][kind] # NoObj
                  THEN got.out = "ok" /\ got.val = wobj[s][kind].id /\ wobj' = wobj
                ELSE IF kind \in PageObjects /\ bm[s].page = Null
                  THEN got.out # "ok" /\ wobj' = wobj
                ELSE /\ got.out = "ok"
                     /\ wobj'[s][kind].id = got.val
                     /\ \A f \in Held : wobj[f[1]][f[2]].id # got.val
                     /\ \A f \in Held : wobj'[f[1]][f[2]] = wobj[f[1]][f[2]]]_vars

\* a second access has returned the login page object World 1 held, while World 2
\* holds a RESTUtils of its own and its access to a page object, made before
\* its page was created, has failed
C28_Witness ==
  /\ stepCall[1].op = "get" /\ stepCall[1].kind = "loginPage"
  /\ stepCall[1].out = "ok" /\ stepCall[1].was # NoObj
  /\ stepCall[1].val = wobj[1].loginPage.id
  /\ wobj[1].restUtils # NoObj
  /\ wobj[2].restUtils # NoObj
  /\ stepCall[2].op = "get" /\ stepCall[2].out # "ok" /\ ~stepCall[2].hadPage
  /\ wobj[2].loginPage = NoObj /\ wobj[2].homePage = NoObj


\* ------------------------------------------------------------------ C29
\* C29: when the call step is run with a method other than POST, GET, PUT, PATCH
\* and DELETE, or with no OAuthToken in testData, or with POST, PUT or PATCH and
\* no requestObject in testData, it fails with an error, calls no send method, so
\* that no request reaches a request context, and leaves the stored response and
\* testData as they were
C29_NoRequestWithoutPreconditions ==
  [][\A l \in Lanes :
       StepMakeCall(l) =>
         LET s == cur[l]
             method == stepCall'[l].given.method
         IN  \/ method \notin {"POST", "GET", "PUT", "PATCH", "DELETE"}
             \/ "OAuthToken" \notin DOMAIN testData[s]
             \/ method \in {"POST", "PUT", "PATCH"}
                  /\ "requestObject" \notin DOMAIN testData[s]
             => /\ stepCall'[l].out \in {"UnsupportedMethodError", "NoTokenError",
                                         "NoRequestError"}
                /\ ~stepCall'[l].given.sent
                /\ rest'[s].response = rest[s].response
                /\ rest'[s].apiContext = rest[s].apiContext
                /\ restRes' = restRes
                /\ testData' = testData]_vars

\* the step was run with a method RESTUtils has none for, the token and a request
\* object being there and a response stored by an earlier call
C29_Witness ==
  \E l \in Lanes :
    /\ stepCall[l].op = "makeCall" /\ stepCall[l].out = "UnsupportedMethodError"
    /\ cur[l] # Null
    /\ {"OAuthToken", "requestObject"} \subseteq DOMAIN testData[cur[l]]
    /\ rest[cur[l]].response # NoResponse
    /\ restRes[cur[l]].delivered = rest[cur[l]].response


\* ------------------------------------------------------------------ C30
\* C30: a setEnvValue call whose read or write of the file fails returns to its
\* caller, which goes on as after a call that succeeded, so that a launchBrowser()
\* that had started its browser still ends without an error; and the failed call
\* leaves the file with the content it had
C30_StoreFailureIsHarmless ==
  [][\A l \in Lanes :
       EnvFails(l) =>
         /\ pc'[l] = ret[l]
         /\ lastCall'[l] = lastCall[l]
         /\ lastCall[l].op = "launchBrowser" => lastCall[l].out = "ok"
         /\ envFile' = envFile]_vars

\* C30, the half that holds: a failed setEnvValue call returns to its caller and
\* changes nothing the caller or the manager holds
C30_StoreFailureNotPropagated ==
  [][\A l \in Lanes :
       EnvFails(l) =>
         /\ pc'[l] = ret[l]
         /\ lastCall'[l] = lastCall[l]
         /\ lastCall[l].op = "launchBrowser" => lastCall[l].out = "ok"
         /\ bm' = bm /\ res' = res]_vars

====
